---- MODULE Spec2Model ----
(***************************************************************************)
(* Job orchestration of the Lumi backend: the job store (InMemoryDbClient  *)
(* and PostgresDbClient, functions/backend/db.py), the queue               *)
(* (functions/backend/queue.py), the request handlers                      *)
(* (functions/backend/routes.py) and the worker (functions/backend/        *)
(* worker.py).                                                             *)
(*                                                                         *)
(* Every call of a job-store or queue method is one atomic step (one       *)
(* transaction of PostgresDbClient, one call on InMemoryDbClient); workers *)
(* and request handlers interleave between calls.  progress_percent is     *)
(* kept as an integer percentage (0.05 is 5, 1.0 is 100).  locked_at None  *)
(* is 0; the clock starts at Epoch > 0.  The statements of                 *)
(* InMemoryJobQueue.dequeue, which takes no lock, are interleaved between  *)
(* threads in the queue's own specification QueueSpec.                     *)
(*                                                                         *)
(* The Firestore-triggered import of functions/main.py is a second machine *)
(* over its own variables (fdoc, fevents, finv, fwrites, freply), with its *)
(* own specification FnSpec.                                               *)
(***************************************************************************)
EXTENDS Integers, Sequences, FiniteSets, TLC

\* ------------------------------------------------------------------ bounds
\* At most NumWorkers worker processes are started, and the workers started
\* and the jobs created together number at most MaxLoad.
NumWorkers == 2
MaxLoad == 3
MaxTicks == 2

\* At most MaxWrites writes are made to the versioned Firestore document.
MaxWrites == 4

\* the longest full_path and target (in characters) check_target_in_path is
\* called with
MaxPath == 4
MaxTarget == 3

\* the most images extract_images_from_latex_source is called with
MaxImages == 2

\* the deepest max_depth and the longest file content (in items) of the
\* inlining model
MaxDepth == 3
MaxItems == 2
MaxAtoms == 4
MaxIdLen == 2
MaxJobs == 2
MaxCalls == 2
\* The longest content checked for comment removal, in characters
MaxChars == 4

\* shared.constants.MAX_LATEX_CHARACTER_COUNT, scaled to the model's strings
MAX_LATEX_CHARACTER_COUNT == MaxItems + 1

\* The clock starts at Epoch and advances TickStep seconds at a time.
\* run_loop: db.requeue_stale_locks(lock_timeout_seconds=900)
LockTimeout == 900

\* JobRecord.locked_at: Optional[float] = None
None == 0

TickStep == LockTimeout
Epoch == None + 1

Workers == 1..NumWorkers
MaxTime == Epoch + MaxTicks * TickStep

\* What wclaimed holds when claim_next_waiting_job returned None.
Nothing == None - 1

\* The paper ids of the model: one arXiv id, and the ids <yymm>.L<nnnn> of
\* local uploads, by sequence number.
ArxivId == "2401.00001"
LocalIds == <<"2611.L0001", "2611.L0002", "2611.L0003", "2611.L0004">>
PaperIds == {ArxivId} \cup {LocalIds[n] : n \in 1..Len(LocalIds)}

VARIABLES
    store,      \* "mem": InMemoryDbClient, "pg": PostgresDbClient
    nworkers,   \* the number of worker processes started
    stub,       \* settings.use_in_memory_backends
    jobs,       \* the job records, in insertion (created_at) order
    locked,     \* InMemoryDbClient.locked
    metadata,   \* paper id -> "none" | "upload" (has storage_pdf_path) | "parsed"
    docs,       \* paper ids with a saved lumi doc (save_lumi_doc)
    storage,    \* the objects in storage: <<paper id, file under papers/{id}/v{version}/>>
    queue,      \* the queue's items
    now,        \* time.time()
    hpc,        \* per job: where the request handler that created it stands
    wpc,        \* per worker: position in run_loop / process_next / process_job
    wjob,       \* per worker: the local variable job (a job id, None if unset)
    wclaimed,   \* per worker: what claim_next_waiting_job returned to this
                \* call of process_next (None: not called, Nothing: no job)
    claims,     \* history: per job, claims returned since it last became WAITING
    requeues,   \* history: per job, the times requeue_stale_locks reset it
    completed,  \* history: per job, a worker has written its completion
    fdoc,       \* main.py: loadingStatus of the versioned document ("ABSENT")
    fevents,    \* main.py: the document writes whose trigger has not run yet
    finv,       \* main.py: the invocations of on_arxiv_versioned_document_written
    fwrites,    \* main.py: the number of writes made to the document
    freply,     \* main.py: what the last start_arxiv_doc_import did
    source_path,    \* latex_utils.py: the extracted source directory, path -> file
    main_tex_file,  \* latex_utils.py: what find_main_tex_file did: returned, raised
    tex,            \* latex_utils.py: the files inline_tex_files reads, path -> content
    max_depth,      \* latex_utils.py: the max_depth inline_tex_files is called with
    calls,          \* latex_utils.py: the running calls of _inline_tex_files, outermost first
    future,         \* import_pipeline.py: the future of the submitted inline_tex_files
    ipc,            \* import_pipeline.py: position in import_arxiv_latex_and_pdf
    latex_string,   \* import_pipeline.py: the local variable latex_string
    formatted,      \* import_pipeline.py: the latex_string arguments format_pdf_with_latex got
    full_path,      \* image_utils.py: check_target_in_path's argument full_path
    target,         \* image_utils.py: check_target_in_path's argument target
    in_path,        \* image_utils.py: what check_target_in_path returned ("": not called)
    source_dir,     \* image_utils.py: the files os.walk(source_dir) finds, as full paths
    image_contents, \* image_utils.py: the ImageContent objects passed in
    image_index,    \* image_utils.py: the image the for loop is at
    extract_pc,     \* image_utils.py: extract_images_from_latex_source: "idle", "loop",
                    \* "returned", "ValueError"; import_pipeline.py: then "fallback
                    \* done", "imported"
    processed_image_metadata,   \* image_utils.py: the list the function builds
    named_paths,    \* image_utils.py: the paths the ValueError's message lists
    warned,         \* image_utils.py: the warnings.warn calls made, in order
    uploads,        \* image_utils.py: the destinations of the files stored
    image_path,     \* import_pipeline.py: the image path import_arxiv_latex_and_pdf returns
    converter,      \* which function converts: "convert_model_output_to_lumi_doc",
                    \* "generate_lumi_answer"
    raw_markdown_string,    \* the model's output / the markdown_response received
    convert_pc,     \* position in the conversion: "idle", "start", "figures",
                    \* "html_figures", "images", "done"
    processed_html, \* import_pipeline.py: the text with the blocks replaced so far
    placeholder_map,    \* the placeholder map, from token to content
    unique_ids,     \* the number of ids get_unique_id has handed to the replacers
    converted,      \* the contents convert_to_lumi_sections returned
    response_content,   \* the contents of the LumiDoc / LumiAnswer returned
    request_arxiv_id,   \* main.py: req.data.get("arxiv_id") of request_arxiv_doc_import
    request_pc,     \* main.py: position in request_arxiv_doc_import: "idle", "received",
                    \* "license", "metadata", "throttle", "write", "returned", "raised"
    request_calls,  \* main.py: the steps the request has run, each with its outcome
    update,         \* db.py: the arguments of the update_job_progress calls
    job_tables,     \* db.py: the job records before the calls and after each call
    pjob,           \* worker.py: the JobRecord process_job is called with
    process_pc,     \* worker.py: position in process_job: "idle", "called", "fetched",
                    \* "saved", "done"
    metadata_version,   \* worker.py: metadata.version
    saved_docs,     \* db.py: the (arxiv_id, version) keys save_lumi_doc has written
    doc_paths,      \* the (arxiv_id, version) of the papers/{id}/v{version}/ paths
                    \* upload_json has written
    items,          \* queue.py: InMemoryJobQueue.items
    dequeue_pc,     \* queue.py: position of each thread in dequeue: "idle", "pop"
    dequeue_calls,  \* queue.py: the dequeue calls that have ended, in order
    enqueued,       \* queue.py: the ids passed to enqueue, in order
    inlined_content,    \* latex_utils.py: final_content before Step 3
    content_no_full_line_comments,  \* latex_utils.py: the result of the first re.sub
    final_content,  \* latex_utils.py: final_content after Step 3
    comments_pc     \* latex_utils.py: position in Step 3: "idle", "called", "lines",
                    \* "done"

jvars == <<store, nworkers, stub, jobs, locked, metadata, docs, storage, queue, now, hpc,
           wpc, wjob, wclaimed, claims, requeues, completed>>

fvars == <<fdoc, fevents, finv, fwrites, freply>>

tvars == <<source_path, main_tex_file>>

ivars == <<tex, max_depth, calls, future, ipc, latex_string, formatted>>

evars == <<source_dir, image_contents, image_index, extract_pc, processed_image_metadata,
           named_paths, warned, uploads, image_path>>

cvars == <<converter, raw_markdown_string, convert_pc, processed_html, placeholder_map,
           unique_ids, converted, response_content>>

rvars == <<request_arxiv_id, request_pc, request_calls>>

uvars == <<update, job_tables>>

pvars == <<pjob, process_pc, metadata_version, saved_docs, doc_paths>>

qvars == <<items, dequeue_pc, dequeue_calls, enqueued>>

mvars == <<inlined_content, content_no_full_line_comments, final_content, comments_pc>>

zvars == <<pvars, qvars, mvars>>

yvars == <<full_path, target, in_path, evars, cvars, rvars, uvars, zvars>>

xvars == <<tvars, ivars, yvars>>

vars == <<jvars, fvars, xvars>>

\* ------------------------------------------------------- JobRecord (db.py)
\* Faulty variant: a record created already in progress.
JobRecord_in_progress(arxiv_id) ==
    [arxiv_id |-> arxiv_id, status |-> "SUMMARIZING", stage |-> "WAITING",
     progress_percent |-> 0, locked_at |-> None]

JobRecord(arxiv_id) ==
    [arxiv_id |-> arxiv_id, status |-> "WAITING", stage |-> "WAITING",
     progress_percent |-> 0, locked_at |-> None]

JobIds(js) == 1..Len(js)

Min(S) == CHOOSE x \in S : \A y \in S : x <= y

\* ----------------------------------------------------- InMemoryDbClient
\* The store lives in one process, whose callers run one call at a time.
\* for job in self.jobs.values(): if job.status == WAITING and
\* job.job_id not in self.locked
InMemory_next_claimable(js, lk) ==
    LET c == {i \in JobIds(js) : js[i].status = "WAITING" /\ i \notin lk}
    IN  IF c = {} THEN None ELSE Min(c)

\* The record as claim_next_waiting_job leaves it: status and locked_at only.
InMemory_claimed_record(r, t) ==
    [r EXCEPT !.status = "SUMMARIZING", !.locked_at = t]

\* ----------------------------------------------------- PostgresDbClient
\* select(JobRow).where(status == WAITING).order_by(created_at.asc()).limit(1)
\* .with_for_update(skip_locked=True); the transaction is one step, so no row
\* is locked by another transaction when it runs.
\* Faulty variant: the select without its where clause.
Postgres_next_any_status(js) ==
    IF JobIds(js) = {} THEN None ELSE Min(JobIds(js))

Postgres_next_claimable(js) ==
    LET c == {i \in JobIds(js) : js[i].status = "WAITING"}
    IN  IF c = {} THEN None ELSE Min(c)

Postgres_claimed_record(r, t) ==
    [r EXCEPT !.status = "SUMMARIZING", !.stage = "CLAIMED", !.locked_at = t]

\* ------------------------------------------------ both stores, by `store`
next_claimable(st, js, lk) ==
    IF st = "mem" THEN InMemory_next_claimable(js, lk)
    ELSE Postgres_next_claimable(js)

claimed_record(st, r, t) ==
    IF st = "mem" THEN InMemory_claimed_record(r, t)
    ELSE Postgres_claimed_record(r, t)

\* claim_next_waiting_job: the job store after the call (js, lk) and the id
\* of the record returned (None when nothing is WAITING).
claim_next_waiting_job(st, js, lk, t) ==
    LET i == next_claimable(st, js, lk)
    IN  IF i = None
        THEN [jobs |-> js, locked |-> lk, ret |-> None]
        ELSE [jobs |-> [js EXCEPT ![i] = claimed_record(st, js[i], t)],
              locked |-> IF st = "mem" THEN lk \cup {i} ELSE lk,
              ret |-> i]

\* requeue_stale_locks: the condition under which a record is reset.
\* In memory: job.locked_at and now - job.locked_at > lock_timeout_seconds;
\* Postgres: locked_at != None, locked_at < time.time() - lock_timeout_seconds.
\* Faulty variant: the stage is not looked at.
is_stale_any_stage(r, t, timeout) ==
    /\ r.status = "SUMMARIZING"
    /\ r.locked_at # None
    /\ t - r.locked_at > timeout

is_stale(r, t, timeout) ==
    /\ r.status = "SUMMARIZING"
    /\ r.stage = "CLAIMED"
    /\ r.locked_at # None
    /\ t - r.locked_at > timeout

requeued_record(r) ==
    [r EXCEPT !.status = "WAITING", !.stage = "WAITING",
              !.progress_percent = 0, !.locked_at = None]

requeue_stale_locks(js, t, timeout) ==
    [jobs |-> [i \in JobIds(js) |->
                  IF is_stale(js[i], t, timeout) THEN requeued_record(js[i])
                  ELSE js[i]],
     ret |-> Cardinality({i \in JobIds(js) : is_stale(js[i], t, timeout)})]

\* A progress_percent argument that is None.
NoProgress == None - 1

\* Faulty variant: every field is written, supplied or not.
update_job_progress_all(js, id, status, stage, progress) ==
    IF id \notin JobIds(js) THEN js
    ELSE [js EXCEPT ![id] = [@ EXCEPT !.status = status, !.stage = stage,
                                      !.progress_percent = progress]]

\* update_job_progress(job_id, status=, stage=, progress_percent=), the same
\* in both stores: an unknown job_id changes nothing; `if status:` and
\* `if stage:` skip an argument that is None or empty ("" here), and
\* `if progress_percent is not None` skips None alone.
update_job_progress(js, id, status, stage, progress) ==
    IF id \notin JobIds(js) THEN js
    ELSE [js EXCEPT ![id] =
             [@ EXCEPT !.status = IF status # "" THEN status ELSE @,
                       !.stage = IF stage # "" THEN stage ELSE @,
                       !.progress_percent = IF progress # NoProgress THEN progress ELSE @]]

\* update_job_status(job_id, status): the status alone.
update_job_status(js, id, status) ==
    IF id \notin JobIds(js) THEN js
    ELSE [js EXCEPT ![id] = [@ EXCEPT !.status = status]]

\* create_import_job: appends a WAITING record; its id is its position.
create_import_job(js, arxiv_id) == Append(js, JobRecord(arxiv_id))

\* ------------------------------------------------------------- routes.py
\* LOCAL_ID_PATTERN / the test of request_arxiv_doc_import: ^\d{4}\.L\d{4}$
_is_local_id(arxiv_id) == \E n \in 1..Len(LocalIds) : arxiv_id = LocalIds[n]

LocalSeq(arxiv_id) == CHOOSE n \in 1..Len(LocalIds) : arxiv_id = LocalIds[n]

Max(S) == CHOOSE x \in S : \A y \in S : x >= y

\* db.list_metadata_ids(local_prefix): the ids with saved metadata that start
\* with the prefix.
list_metadata_ids(md) == {p \in PaperIds : md[p] # "none" /\ _is_local_id(p)}

\* re.match(rf"{re.escape(local_prefix)}(\\d{{4}})$", arxiv_id): in the raw
\* f-string the doubled backslash stays doubled, so the pattern asks for a
\* literal backslash followed by four letters d, which no generated id has.
local_seq_pattern_matches(arxiv_id) == FALSE

_generate_local_arxiv_id(md) ==
    LET seqs == {LocalSeq(p) : p \in {q \in list_metadata_ids(md) :
                                        local_seq_pattern_matches(q)}}
        max_seq == IF seqs = {} THEN 0 ELSE Max(seqs)
    IN  LocalIds[max_seq + 1]

\* ------------------------------------------------------------------ Init
JobInit ==
    /\ store \in {"mem", "pg"}
    /\ stub \in BOOLEAN
    \* get_db_client: in-memory backends imply the in-memory store
    /\ stub => store = "mem"
    /\ jobs = <<>>
    /\ locked = {}
    /\ metadata = [p \in PaperIds |-> "none"]
    /\ docs = {}
    /\ storage = {}
    /\ queue = <<>>
    /\ now = Epoch
    /\ hpc = <<>>
    /\ nworkers \in Workers
    /\ wpc = [w \in Workers |-> IF w <= nworkers THEN "loop" ELSE "ended"]
    /\ wjob = [w \in Workers |-> None]
    /\ wclaimed = [w \in Workers |-> None]
    /\ claims = <<>>
    /\ requeues = <<>>
    /\ completed = <<>>

\* main.py: no versioned document yet
FnIdle ==
    /\ fdoc = "ABSENT"
    /\ fevents = <<>>
    /\ finv = <<>>
    /\ fwrites = 0
    /\ freply = "none"

\* What main_tex_file holds while find_main_tex_file has not returned.
NotCalled == [called |-> FALSE, raised |-> "", ret |-> {}]

\* find_main_tex_file not called, on an empty directory
FindIdle ==
    /\ source_path = <<>>
    /\ main_tex_file = NotCalled

\* A future that has not finished and was not cancelled.
NoFuture == [done |-> FALSE, result |-> <<>>, cancel_called |-> FALSE]

\* import_arxiv_latex_and_pdf not called
InlineIdle ==
    /\ tex = <<>>
    /\ max_depth = 0
    /\ calls = <<>>
    /\ future = NoFuture
    /\ ipc = "idle"
    /\ latex_string = <<>>
    /\ formatted = <<>>

\* The functions checked on their own have not been called, except the one
\* named.
Idle(called) ==
    /\ called # "check_target_in_path"
       => full_path = <<>> /\ target = <<>> /\ in_path = ""
    /\ called # "extract_images_from_latex_source"
       => /\ source_dir = {} /\ image_contents = <<>> /\ image_index = 1
          /\ extract_pc = "idle" /\ processed_image_metadata = <<>>
          /\ named_paths = {} /\ warned = <<>> /\ uploads = {} /\ image_path = <<>>
    /\ called # "convert"
       => /\ converter = "" /\ raw_markdown_string = <<>> /\ convert_pc = "idle"
          /\ processed_html = <<>> /\ placeholder_map = <<>> /\ unique_ids = 0
          /\ converted = <<>> /\ response_content = <<>>
    /\ called # "request_arxiv_doc_import"
       => request_arxiv_id = <<>> /\ request_pc = "idle" /\ request_calls = <<>>
    /\ called # "update_job_progress"
       => update = <<>> /\ job_tables = <<>>
    /\ called # "process_job"
       => /\ pjob = [arxiv_id |-> "", version |-> "", status |-> ""]
          /\ process_pc = "idle" /\ metadata_version = ""
          /\ saved_docs = {} /\ doc_paths = {}
    /\ called # "dequeue"
       => /\ items = <<>> /\ dequeue_pc = [t \in Workers |-> "idle"]
          /\ dequeue_calls = <<>> /\ enqueued = <<>>
    /\ called # "remove_comments"
       => /\ inlined_content = <<>> /\ content_no_full_line_comments = <<>>
          /\ final_content = <<>> /\ comments_pc = "idle"

Init == JobInit /\ FnIdle /\ FindIdle /\ InlineIdle /\ Idle("")

\* No job, no versioned document, no source directory: the state a function
\* checked on its own is called in.
Frozen == JobInit /\ store = "pg" /\ nworkers = 1 /\ FnIdle /\ FindIdle /\ InlineIdle

\* ------------------------------------------------- request handlers
\* A handler's first step creates the job; the steps left to it are kept in
\* hpc under the job's id.
Created(arxiv_id, next) ==
    /\ Len(jobs) + nworkers < MaxLoad
    /\ jobs' = create_import_job(jobs, arxiv_id)
    /\ hpc' = Append(hpc, next)
    /\ claims' = Append(claims, 0)
    /\ requeues' = Append(requeues, 0)
    /\ completed' = Append(completed, FALSE)

\* request_arxiv_doc_import up to queue.enqueue: create_import_job.  (The
\* save_metadata of a payload with a test_config writes a dictionary that
\* nothing in the job's processing reads; it is left out.)
RequestArxivImport ==
    /\ Created(ArxivId, "arxiv_enqueue")
    /\ UNCHANGED <<store, nworkers, stub, locked, metadata, docs, queue, now, storage, wpc, wjob,
                   wclaimed>>

\* queue.enqueue(job.job_id), of either handler
Enqueue(j) ==
    /\ hpc[j] \in {"arxiv_enqueue", "local_enqueue"}
    /\ queue' = Append(queue, j)
    /\ hpc' = [hpc EXCEPT ![j] = "done"]
    /\ UNCHANGED <<store, nworkers, stub, jobs, locked, metadata, docs, now, storage, wpc, wjob,
                   wclaimed, claims, requeues, completed>>

\* _find_existing_paper_by_title over db.list_docs: the uploaded PDF's title
\* is that of the saved document of paper p.
RequestLocalDeduped ==
    /\ \E p \in docs : Created(p, "dedupe_update")
    /\ UNCHANGED <<store, nworkers, stub, locked, metadata, docs, queue, now, storage, wpc, wjob,
                   wclaimed>>

\* the update_job_progress of the dedupe branch
DedupeUpdate(j) ==
    /\ hpc[j] = "dedupe_update"
    /\ jobs' = update_job_progress(jobs, j, "SUCCESS", "DEDUPED", 100)
    /\ hpc' = [hpc EXCEPT ![j] = "done"]
    /\ UNCHANGED <<store, nworkers, stub, locked, metadata, docs, queue, now, storage, wpc, wjob,
                   wclaimed, claims, requeues, completed>>

\* The title matches no saved document: _generate_local_arxiv_id,
\* storage.upload_file / storage.upload_json: the objects under
\* papers/{arxiv_id}/v{version}/ after the files are written
upload(st, arxiv_id, files) == st \cup {<<arxiv_id, f>> : f \in files}

\* the files process_job writes with storage.upload_json, in the order of
\* the calls
doc_uploads == <<"lumi_doc.json", "summaries.json">>

\* the first n of them
uploaded(n) == {doc_uploads[i] : i \in 1..n}

\* create_import_job and storage.upload_file of the PDF.
RequestLocalUpload ==
    /\ Created(_generate_local_arxiv_id(metadata), "local_save_metadata")
    /\ storage' = upload(storage, _generate_local_arxiv_id(metadata), {"source.pdf"})
    /\ UNCHANGED <<store, nworkers, stub, locked, metadata, docs, queue, now, wpc, wjob,
                   wclaimed>>

\* db.save_metadata(arxiv_id, metadata_payload) with storage_pdf_path
LocalSaveMetadata(j) ==
    /\ hpc[j] = "local_save_metadata"
    /\ metadata' = [metadata EXCEPT ![jobs[j].arxiv_id] = "upload"]
    /\ hpc' = [hpc EXCEPT ![j] = "local_enqueue"]
    /\ UNCHANGED <<store, nworkers, stub, jobs, locked, docs, queue, now, storage, wpc, wjob,
                   wclaimed, claims, requeues, completed>>

\* The handler stops between two of its calls (the process is killed, or a
\* call raises): the steps left to it never run.
HandlerStops(j) ==
    /\ hpc[j] \notin {"done", "stopped"}
    /\ hpc' = [hpc EXCEPT ![j] = "stopped"]
    /\ UNCHANGED <<store, nworkers, stub, jobs, locked, metadata, docs, queue, now, storage, wpc,
                   wjob, wclaimed, claims, requeues, completed>>

\* ------------------------------------------------------------ worker.py
hvars == <<store, nworkers, stub, hpc>>

\* What a step that ends process_next leaves of the call's local variables.
Return(w) ==
    /\ wpc' = [wpc EXCEPT ![w] = "loop"]
    /\ wjob' = [wjob EXCEPT ![w] = None]
    /\ wclaimed' = [wclaimed EXCEPT ![w] = None]

Goto(w, pc) ==
    /\ wpc' = [wpc EXCEPT ![w] = pc]
    /\ UNCHANGED <<wjob, wclaimed>>

\* A worker's update_job_progress on the job it processes.
Progress(w, status, stage, progress) ==
    jobs' = update_job_progress(jobs, wjob[w], status, stage, progress)

\* run_loop: db.requeue_stale_locks(lock_timeout_seconds=900)
Requeue(w) ==
    /\ wpc[w] = "loop"
    /\ LET r == requeue_stale_locks(jobs, now, LockTimeout)
       IN  /\ jobs' = r.jobs
           /\ claims' = [j \in JobIds(jobs) |->
                            IF r.jobs[j] # jobs[j] THEN 0 ELSE claims[j]]
           /\ requeues' = [j \in JobIds(jobs) |->
                            IF r.jobs[j] # jobs[j] THEN requeues[j] + 1
                            ELSE requeues[j]]
    /\ Goto(w, "dequeue")
    /\ UNCHANGED <<hvars, locked, metadata, docs, queue, now, storage, completed>>

\* process_next: job_id = queue.dequeue(...)
Dequeue(w) ==
    /\ wpc[w] = "dequeue"
    /\ IF queue # <<>>
       THEN /\ queue' = Tail(queue)
            /\ wjob' = [wjob EXCEPT ![w] = Head(queue)]
            /\ wpc' = [wpc EXCEPT ![w] = "get"]
       ELSE /\ wpc' = [wpc EXCEPT ![w] = "poll"]
            /\ UNCHANGED <<queue, wjob>>
    /\ UNCHANGED <<hvars, jobs, locked, metadata, docs, now, storage, wclaimed,
                   claims, requeues, completed>>

\* job = db.get_job(job_id) and the test job.status == LoadingStatus.WAITING.
\* Records are never deleted, so the record of a queued id is always found.
GetJob(w) ==
    /\ wpc[w] = "get"
    /\ Goto(w, IF jobs[wjob[w]].status = "WAITING" THEN "claim" ELSE "start")
    /\ UNCHANGED <<hvars, jobs, locked, metadata, docs, queue, now, storage,
                   claims, requeues, completed>>

Claimed(c) ==
    /\ UNCHANGED requeues
    /\ jobs' = c.jobs
    /\ locked' = c.locked
    /\ claims' = IF c.ret = None THEN claims
                 ELSE [claims EXCEPT ![c.ret] = @ + 1]

\* claimed = db.claim_next_waiting_job(); if claimed and claimed.job_id ==
\* job.job_id: job = claimed.  Either way job keeps the dequeued id.
ClaimDequeued(w) ==
    /\ wpc[w] = "claim"
    /\ LET c == claim_next_waiting_job(store, jobs, locked, now)
       IN  /\ Claimed(c)
           /\ wclaimed' = [wclaimed EXCEPT ![w] =
                              IF c.ret = None THEN Nothing ELSE c.ret]
    /\ wpc' = [wpc EXCEPT ![w] = "start"]
    /\ UNCHANGED <<hvars, metadata, docs, queue, now, storage, wjob, completed>>

\* The fallback: job = db.claim_next_waiting_job(); if not job: return False
PollClaim(w) ==
    /\ wpc[w] = "poll"
    /\ LET c == claim_next_waiting_job(store, jobs, locked, now)
       IN  /\ Claimed(c)
           /\ IF c.ret = None
              THEN Return(w)
              ELSE /\ wjob' = [wjob EXCEPT ![w] = c.ret]
                   /\ wclaimed' = [wclaimed EXCEPT ![w] = c.ret]
                   /\ wpc' = [wpc EXCEPT ![w] = "start"]
    /\ UNCHANGED <<hvars, metadata, docs, queue, now, storage, completed>>

\* process_job of a local upload whose metadata has no storage_pdf_path
StartLocalMissingPdf(w) ==
    /\ wpc[w] = "start"
    /\ _is_local_id(jobs[wjob[w]].arxiv_id)
    /\ metadata[jobs[wjob[w]].arxiv_id] # "upload"
    /\ Progress(w, "ERROR_DOCUMENT_LOAD", "LOCAL_UPLOAD_MISSING_PDF", 100)
    /\ Return(w)
    /\ UNCHANGED <<hvars, locked, metadata, docs, queue, now, storage, claims, requeues,
                   completed>>

\* process_job of a local upload: the first update_job_progress
StartLocal(w) ==
    /\ wpc[w] = "start"
    /\ _is_local_id(jobs[wjob[w]].arxiv_id)
    /\ metadata[jobs[wjob[w]].arxiv_id] = "upload"
    /\ Progress(w, "SUMMARIZING", "FETCH_METADATA", 5)
    /\ Goto(w, "local_metadata")
    /\ UNCHANGED <<hvars, locked, metadata, docs, queue, now, storage, claims, requeues,
                   completed>>

\* if settings.use_in_memory_backends: db.update_job_status(SUCCESS); return
StartStub(w) ==
    /\ wpc[w] = "start"
    /\ ~_is_local_id(jobs[wjob[w]].arxiv_id)
    /\ stub
    /\ jobs' = update_job_status(jobs, wjob[w], "SUCCESS")
    /\ completed' = [completed EXCEPT ![wjob[w]] = TRUE]
    /\ Return(w)
    /\ UNCHANGED <<hvars, locked, metadata, docs, queue, now, storage, claims, requeues>>

\* process_job of an arXiv import: the first update_job_progress
StartArxiv(w) ==
    /\ wpc[w] = "start"
    /\ ~_is_local_id(jobs[wjob[w]].arxiv_id)
    /\ ~stub
    /\ Progress(w, "SUMMARIZING", "FETCH_METADATA", 5)
    /\ Goto(w, "arxiv_metadata")
    /\ UNCHANGED <<hvars, locked, metadata, docs, queue, now, storage, claims, requeues,
                   completed>>

\* The except clause of a path, entered with a generic exception, with the
\* Formatter's quota exceeded, with GeminiInvalidResponseException, or with
\* the exception the inner except clause of the uploads re-raised.
ArxivExceptPcs ==
    {"arxiv_except", "arxiv_except_quota", "arxiv_except_invalid",
     "arxiv_except_upload"}
LocalExceptPcs == {"local_except", "local_except_quota", "local_except_invalid"}

\* A call of the pipeline raises inside the try block: control goes to the
\* except clause of the path.
Raises(w, at, handler) ==
    /\ wpc[w] \in at
    /\ Goto(w, handler)
    /\ UNCHANGED <<hvars, jobs, locked, metadata, docs, queue, now, storage,
                   claims, requeues, completed>>

\* check_arxiv_license, fetch_arxiv_metadata, save_metadata, then the
\* EXTRACT_CONCEPTS update
ArxivMetadata(w) ==
    /\ wpc[w] = "arxiv_metadata"
    /\ metadata' = [metadata EXCEPT ![jobs[wjob[w]].arxiv_id] = "parsed"]
    /\ Progress(w, "SUMMARIZING", "EXTRACT_CONCEPTS", 15)
    /\ Goto(w, "arxiv_concepts")
    /\ UNCHANGED <<hvars, locked, docs, queue, now, storage, claims, requeues, completed>>

\* extract_concepts, then the IMPORT_PIPELINE update at 0.25
ArxivConcepts(w) ==
    /\ wpc[w] = "arxiv_concepts"
    /\ Progress(w, "SUMMARIZING", "IMPORT_PIPELINE", 25)
    /\ Goto(w, "arxiv_import")
    /\ UNCHANGED <<hvars, locked, metadata, docs, queue, now, storage, claims, requeues,
                   completed>>

\* import_arxiv_latex_and_pdf, then the IMPORT_PIPELINE update at 0.5
ArxivImport(w) ==
    /\ wpc[w] = "arxiv_import"
    /\ Progress(w, "SUMMARIZING", "IMPORT_PIPELINE", 50)
    /\ Goto(w, "arxiv_imported")
    /\ UNCHANGED <<hvars, locked, metadata, docs, queue, now, storage, claims, requeues,
                   completed>>

\* the SUMMARIZING update at 0.7
ArxivSummarizing(w) ==
    /\ wpc[w] = "arxiv_imported"
    /\ Progress(w, "SUMMARIZING", "SUMMARIZING", 70)
    /\ Goto(w, "arxiv_summaries")
    /\ UNCHANGED <<hvars, locked, metadata, docs, queue, now, storage, claims, requeues,
                   completed>>

\* generate_lumi_summaries, then db.save_lumi_doc
ArxivSaveDoc(w) ==
    /\ wpc[w] = "arxiv_summaries"
    /\ docs' = docs \cup {jobs[wjob[w]].arxiv_id}
    /\ Goto(w, "arxiv_upload")
    /\ UNCHANGED <<hvars, jobs, locked, metadata, queue, now, storage, claims, requeues,
                   completed>>

\* both storage.upload_json calls succeed, then the SUCCESS update
ArxivSuccess(w) ==
    /\ wpc[w] = "arxiv_upload"
    /\ storage' = upload(storage, jobs[wjob[w]].arxiv_id, uploaded(Len(doc_uploads)))
    /\ Progress(w, "SUCCESS", "SUCCESS", 100)
    /\ completed' = [completed EXCEPT ![wjob[w]] = TRUE]
    /\ Return(w)
    /\ UNCHANGED <<hvars, locked, metadata, docs, queue, now, claims, requeues>>

\* a storage.upload_json call raises: the UPLOAD_ERROR update, then raise
ArxivUploadError(w) ==
    /\ wpc[w] = "arxiv_upload"
    /\ \E n \in 0..(Len(doc_uploads) - 1) :
           storage' = upload(storage, jobs[wjob[w]].arxiv_id, uploaded(n))
    /\ Progress(w, "ERROR_DOCUMENT_LOAD", "UPLOAD_ERROR", 90)
    /\ Goto(w, "arxiv_except_upload")
    /\ UNCHANGED <<hvars, locked, metadata, docs, queue, now, claims, requeues,
                   completed>>

\* except Exception: the ERROR update, then raise.  Neither process_next nor
\* run_loop catches it: the worker ends, its calls unwound.
ArxivExcept(w) ==
    /\ wpc[w] \in ArxivExceptPcs
    /\ Progress(w, "ERROR_DOCUMENT_LOAD", "ERROR", 0)
    /\ wpc' = [wpc EXCEPT ![w] = "ended"]
    /\ wjob' = [wjob EXCEPT ![w] = None]
    /\ wclaimed' = [wclaimed EXCEPT ![w] = None]
    /\ UNCHANGED <<hvars, locked, metadata, docs, queue, now, storage, claims, requeues,
                   completed>>

\* get_bytes, the PDF's metadata, save_metadata (an ArxivMetadata, without
\* storage_pdf_path), then the IMPORT_PIPELINE update
LocalMetadata(w) ==
    /\ wpc[w] = "local_metadata"
    /\ metadata' = [metadata EXCEPT ![jobs[wjob[w]].arxiv_id] = "parsed"]
    /\ Progress(w, "SUMMARIZING", "IMPORT_PIPELINE", 25)
    /\ Goto(w, "local_import")
    /\ UNCHANGED <<hvars, locked, docs, queue, now, storage, claims, requeues, completed>>

\* extract_concepts, import_pdf_bytes, then the SUMMARIZING update
LocalImport(w) ==
    /\ wpc[w] = "local_import"
    /\ Progress(w, "SUMMARIZING", "SUMMARIZING", 70)
    /\ Goto(w, "local_summaries")
    /\ UNCHANGED <<hvars, locked, metadata, docs, queue, now, storage, claims, requeues,
                   completed>>

\* generate_lumi_summaries, then db.save_lumi_doc
LocalSaveDoc(w) ==
    /\ wpc[w] = "local_summaries"
    /\ docs' = docs \cup {jobs[wjob[w]].arxiv_id}
    /\ Goto(w, "local_upload")
    /\ UNCHANGED <<hvars, jobs, locked, metadata, queue, now, storage, claims, requeues,
                   completed>>

\* both storage.upload_json calls, then the SUCCESS update
LocalSuccess(w) ==
    /\ wpc[w] = "local_upload"
    /\ storage' = upload(storage, jobs[wjob[w]].arxiv_id, uploaded(Len(doc_uploads)))
    /\ Progress(w, "SUCCESS", "SUCCESS", 100)
    /\ completed' = [completed EXCEPT ![wjob[w]] = TRUE]
    /\ Return(w)
    /\ UNCHANGED <<hvars, locked, metadata, docs, queue, now, claims, requeues>>

\* except Exception of the local path: the ERROR update, then return
LocalExcept(w) ==
    /\ wpc[w] \in LocalExceptPcs
    /\ Progress(w, "ERROR_DOCUMENT_LOAD", "ERROR", 0)
    /\ Return(w)
    /\ UNCHANGED <<hvars, locked, metadata, docs, queue, now, storage, claims, requeues,
                   completed>>

ArxivTry == {"arxiv_metadata", "arxiv_concepts", "arxiv_import", "arxiv_summaries"}
LocalTry == {"local_metadata", "local_import", "local_summaries", "local_upload"}

\* Where the pipeline calls the model: import_arxiv_latex_and_pdf /
\* import_pdf_bytes (format_pdf_with_latex) and generate_lumi_summaries.
ArxivLlmCalls == {"arxiv_import", "arxiv_summaries"}
LocalLlmCalls == {"local_import", "local_summaries"}

\* The worker process stops for good (it is killed, its host fails).
Crash(w) ==
    /\ wpc[w] # "ended"
    /\ Goto(w, "ended")
    /\ UNCHANGED <<hvars, jobs, locked, metadata, docs, queue, now, storage,
                   claims, requeues, completed>>

\* Time passes.
Tick ==
    /\ now + TickStep <= MaxTime
    /\ now' = now + TickStep
    /\ UNCHANGED <<hvars, jobs, locked, metadata, docs, storage, queue, wpc, wjob,
                   wclaimed, claims, requeues, completed>>

Handler ==
    \/ RequestArxivImport
    \/ RequestLocalDeduped
    \/ RequestLocalUpload
    \/ \E j \in JobIds(jobs) :
          \/ Enqueue(j)
          \/ DedupeUpdate(j)
          \/ LocalSaveMetadata(j)
          \/ HandlerStops(j)

Worker(w) ==
    \/ Requeue(w)
    \/ Dequeue(w)
    \/ GetJob(w)
    \/ ClaimDequeued(w)
    \/ PollClaim(w)
    \/ StartLocalMissingPdf(w)
    \/ StartLocal(w)
    \/ StartStub(w)
    \/ StartArxiv(w)
    \/ ArxivMetadata(w)
    \/ ArxivConcepts(w)
    \/ ArxivImport(w)
    \/ ArxivSummarizing(w)
    \/ ArxivSaveDoc(w)
    \/ ArxivSuccess(w)
    \/ ArxivUploadError(w)
    \/ Raises(w, ArxivTry, "arxiv_except")
    \/ Raises(w, ArxivLlmCalls, "arxiv_except_quota")
    \/ Raises(w, ArxivLlmCalls, "arxiv_except_invalid")
    \/ ArxivExcept(w)
    \/ LocalMetadata(w)
    \/ LocalImport(w)
    \/ LocalSaveDoc(w)
    \/ LocalSuccess(w)
    \/ Raises(w, LocalTry, "local_except")
    \/ Raises(w, LocalLlmCalls, "local_except_quota")
    \/ Raises(w, LocalLlmCalls, "local_except_invalid")
    \/ LocalExcept(w)

Next ==
    /\ UNCHANGED <<fvars, xvars>>
    /\ \/ Handler
       \/ \E w \in Workers : Worker(w)
       \/ \E w \in Workers : Crash(w)
       \/ Tick

Spec == Init /\ [][Next]_vars

\* run_loop is a `while True` loop and the clock advances: a worker that has
\* not stopped takes its next step, and time passes.  Nothing obliges a
\* request to arrive, a handler to go on or a worker to crash.
LiveSpec ==
    /\ Init
    /\ [][Next]_vars
    /\ WF_vars(Tick /\ UNCHANGED <<fvars, xvars>>)
    /\ \A w \in Workers : WF_vars(Worker(w) /\ UNCHANGED <<fvars, xvars>>)

\* ------------------------------------------------------ functions/main.py
\* RELOAD_ERROR_STATES
RELOAD_ERROR_STATES ==
    {"ERROR_DOCUMENT_LOAD_INVALID_RESPONSE", "ERROR_DOCUMENT_LOAD_QUOTA_EXCEEDED",
     "ERROR_SUMMARIZING_INVALID_RESPONSE", "ERROR_SUMMARIZING_QUOTA_EXCEEDED"}

\* The status the except clauses of on_arxiv_versioned_document_written
\* hand to _write_error, by the phase of the handler and what was raised:
\* exceptions.TooManyRequests, GeminiInvalidResponseException, or any other.
error_status(phase, raised) ==
    IF phase = "import"
    THEN CASE raised = "TooManyRequests" -> "ERROR_DOCUMENT_LOAD_QUOTA_EXCEEDED"
           [] raised = "GeminiInvalidResponse" -> "ERROR_DOCUMENT_LOAD_INVALID_RESPONSE"
           [] OTHER -> "ERROR_DOCUMENT_LOAD"
    ELSE CASE raised = "TooManyRequests" -> "ERROR_SUMMARIZING_QUOTA_EXCEEDED"
           [] raised = "GeminiInvalidResponse" -> "ERROR_SUMMARIZING_INVALID_RESPONSE"
           [] OTHER -> "ERROR_SUMMARIZING"

Exceptions == {"TooManyRequests", "GeminiInvalidResponse", "Exception"}

\* A write of the versioned document: every write triggers the function.
FnWrite(status) ==
    /\ fwrites < MaxWrites
    /\ fdoc' = status
    /\ fevents' = Append(fevents, status)
    /\ fwrites' = fwrites + 1

\* _try_doc_write with `loading_status not in RELOAD_ERROR_STATES` replaced by
\* a test for the statuses that are no error: every error status is rewritten.
_try_doc_write_any_error ==
    IF fdoc = "TIMEOUT"
    THEN /\ freply' = "DEADLINE_EXCEEDED"
         /\ UNCHANGED <<fdoc, fevents, fwrites>>
    ELSE IF fdoc \in {"WAITING", "SUMMARIZING", "SUCCESS"}
    THEN /\ freply' = "kept"
         /\ UNCHANGED <<fdoc, fevents, fwrites>>
    ELSE /\ FnWrite("WAITING")
         /\ freply' = "written"

\* start_arxiv_doc_import -> _try_doc_write: the transaction that creates
\* the document, rewrites it after a reloadable error, leaves it alone, or
\* raises DEADLINE_EXCEEDED when its status is TIMEOUT.
_try_doc_write ==
    IF fdoc = "TIMEOUT"
    THEN /\ freply' = "DEADLINE_EXCEEDED"
         /\ UNCHANGED <<fdoc, fevents, fwrites>>
    ELSE IF fdoc # "ABSENT" /\ fdoc \notin RELOAD_ERROR_STATES
    THEN /\ freply' = "kept"
         /\ UNCHANGED <<fdoc, fevents, fwrites>>
    ELSE /\ FnWrite("WAITING")
         /\ freply' = "written"

\* A request whose arguments, license, metadata and throttle checks pass.
FnRequest ==
    /\ _try_doc_write
    /\ UNCHANGED <<jvars, xvars, finv>>

\* on_arxiv_versioned_document_written starts for a write: the Timer is
\* started when the written status is WAITING or SUMMARIZING.
FnTriggered ==
    /\ fevents # <<>>
    /\ LET seen == Head(fevents)
       IN  finv' = Append(finv,
              [pc |-> CASE seen = "WAITING" -> "import"
                        [] seen = "SUMMARIZING" -> "summarize"
                        [] OTHER -> "done",
               timer |-> IF seen \in {"WAITING", "SUMMARIZING"}
                         THEN "armed" ELSE "unset"])
    /\ fevents' = Tail(fevents)
    /\ UNCHANGED <<jvars, xvars, fdoc, fwrites, freply>>

\* The handler's last write without the `finally: timer.cancel()`.
FnFinishTimerKept(i, status) ==
    /\ FnWrite(status)
    /\ finv' = [finv EXCEPT ![i].pc = "done"]
    /\ UNCHANGED <<jvars, xvars, freply>>

\* The handler's last write, then `finally: timer.cancel()`.
FnFinish(i, status) ==
    /\ FnWrite(status)
    /\ finv' = [finv EXCEPT ![i] =
                  [pc |-> "done",
                   timer |-> IF @.timer = "armed" THEN "cancelled" ELSE @.timer]]
    /\ UNCHANGED <<jvars, xvars, freply>>

\* _add_lumi_doc: the import, then the update that sets SUMMARIZING
FnImported(i) ==
    /\ finv[i].pc = "import"
    /\ FnFinish(i, "SUMMARIZING")

\* _add_summaries_to_lumi_doc: the summaries, then the update that sets SUCCESS
FnSummarized(i) ==
    /\ finv[i].pc = "summarize"
    /\ FnFinish(i, "SUCCESS")

\* The import or the summaries raise: the except clause's _write_error
FnFails(i, raised) ==
    /\ finv[i].pc \in {"import", "summarize"}
    /\ FnFinish(i, error_status(finv[i].pc, raised))

\* The Timer thread runs _write_timeout_error while the handler is still
\* at work (DOCUMENT_REQUESTED_FUNCTION_TIMEOUT less the buffer has passed).
FnTimerFires(i) ==
    /\ finv[i].pc \in {"import", "summarize"}
    /\ finv[i].timer = "armed"
    /\ FnWrite("TIMEOUT")
    /\ finv' = [finv EXCEPT ![i].timer = "fired"]
    /\ UNCHANGED <<jvars, xvars, freply>>

\* timeout_sec has passed: the platform ends the invocation.
FnKilled(i) ==
    /\ finv[i].pc \in {"import", "summarize"}
    /\ finv[i].timer = "fired"
    /\ finv' = [finv EXCEPT ![i].pc = "killed"]
    /\ UNCHANGED <<jvars, xvars, fdoc, fevents, fwrites, freply>>

FnInit ==
    /\ Init
    /\ store = "pg"
    /\ nworkers = 1

FnNext ==
    \/ FnRequest
    \/ FnTriggered
    \/ \E i \in 1..Len(finv) :
          \/ FnImported(i)
          \/ FnSummarized(i)
          \/ \E raised \in Exceptions : FnFails(i, raised)
          \/ FnTimerFires(i)
          \/ FnKilled(i)

FnSpec == FnInit /\ [][FnNext]_vars

\* ------------------------------------------------- the job store, by itself
\* The store's methods called in any order by any caller, on jobs, locked
\* and now: create_import_job, claim_next_waiting_job, update_job_progress
\* with any stage, requeue_stale_locks.
StoreFrame == UNCHANGED <<hvars, metadata, docs, storage, queue, wpc, wjob, wclaimed,
                          completed, fvars, xvars>>

CallCreate ==
    /\ Len(jobs) < MaxJobs
    /\ jobs' = create_import_job(jobs, ArxivId)
    /\ claims' = Append(claims, 0)
    /\ requeues' = Append(requeues, 0)
    /\ UNCHANGED <<locked, now>>
    /\ StoreFrame

CallClaim ==
    /\ Claimed(claim_next_waiting_job(store, jobs, locked, now))
    /\ UNCHANGED now
    /\ StoreFrame

CallUpdate(j, stage) ==
    /\ jobs[j].stage # stage
    /\ jobs' = update_job_progress(jobs, j, "", stage, NoProgress)
    /\ UNCHANGED <<locked, now, claims, requeues>>
    /\ StoreFrame

CallRequeue ==
    /\ LET r == requeue_stale_locks(jobs, now, LockTimeout)
       IN  /\ r.ret > 0
           /\ jobs' = r.jobs
           /\ claims' = [j \in JobIds(jobs) |-> IF r.jobs[j] # jobs[j] THEN 0 ELSE claims[j]]
           /\ requeues' = [j \in JobIds(jobs) |->
                              IF r.jobs[j] # jobs[j] THEN requeues[j] + 1 ELSE requeues[j]]
    /\ UNCHANGED <<locked, now>>
    /\ StoreFrame

CallSleep ==
    /\ now + TickStep <= MaxTime
    /\ now' = now + TickStep
    /\ UNCHANGED <<jobs, locked, claims, requeues>>
    /\ StoreFrame

StoreNext ==
    \/ CallCreate
    \/ CallClaim
    \/ \E j \in JobIds(jobs) : \E stage \in {"CLAIMED", "FETCH_METADATA"} : CallUpdate(j, stage)
    \/ CallRequeue
    \/ CallSleep

StoreInit == Init /\ nworkers = 1 /\ ~stub

StoreSpec == StoreInit /\ [][StoreNext]_vars

\* -------------------------------------------------- db.update_job_progress
\* The records a job table may hold: a job waiting, claimed, at work, done.
Records ==
    {JobRecord(ArxivId),
     [JobRecord(ArxivId) EXCEPT !.status = "SUMMARIZING", !.stage = "CLAIMED", !.locked_at = 1],
     [JobRecord(ArxivId) EXCEPT !.status = "SUMMARIZING", !.stage = "IMPORTING",
                                !.progress_percent = 50, !.locked_at = 1],
     [JobRecord(ArxivId) EXCEPT !.status = "SUCCESS", !.stage = "DONE",
                                !.progress_percent = 100, !.locked_at = 1]}

\* One more call of update_job_progress with the same arguments.
UpdateJobProgress ==
    /\ job_tables # <<>>
    /\ Len(job_tables) < MaxCalls + 1
    /\ job_tables' = Append(job_tables,
                            update_job_progress(job_tables[Len(job_tables)], update.job_id,
                                                update.status, update.stage,
                                                update.progress_percent))
    /\ UNCHANGED <<jvars, fvars, tvars, ivars, full_path, target, in_path, evars, cvars,
                   rvars, zvars, update>>

\* Any table of up to MaxJobs records, and any arguments: a job_id of the
\* table or not, each of the other three supplied or not.
UpdateInit ==
    /\ Frozen
    /\ Idle("update_job_progress")
    /\ update \in [job_id : 1..(MaxJobs + 1), status : {"", "SUCCESS", "SUMMARIZING"},
                   stage : {"", "DONE"}, progress_percent : {NoProgress, 0, 100}]
    /\ job_tables \in {<<js>> : js \in UNION {[1..n -> Records] : n \in 0..MaxJobs}}

UpdateSpec == UpdateInit /\ [][UpdateJobProgress]_vars

\* ------------------------------------------ main.request_arxiv_doc_import
\* The arxiv_id of a request is a string of up to ARXIV_ID_MAX_LENGTH + 1
\* characters; a request without one has the empty string.
ARXIV_ID_MAX_LENGTH == MaxIdLen

\* A step of the request returns or raises: it is recorded, and the request
\* goes on to the next step or ends.
Step(fn, outcome, pc) ==
    /\ request_calls' = Append(request_calls, [fn |-> fn, outcome |-> outcome])
    /\ request_pc' = pc
    /\ UNCHANGED <<jvars, tvars, ivars, full_path, target, in_path, evars, cvars, uvars, zvars,
                   request_arxiv_id, finv>>

\* request_arxiv_doc_import: INVALID_ARGUMENT is raised when arxiv_id is
\* missing or longer than ARXIV_ID_MAX_LENGTH
ValidateArguments ==
    /\ request_pc = "received"
    /\ IF request_arxiv_id = <<>> \/ Len(request_arxiv_id) > ARXIV_ID_MAX_LENGTH
       THEN Step("request_arxiv_doc_import", "INVALID_ARGUMENT", "raised")
       ELSE Step("request_arxiv_doc_import", "ok", "license")
    /\ UNCHANGED <<fdoc, fevents, fwrites, freply>>

\* Faulty variant: the request goes on whatever the license check did.
CheckArxivLicenseIgnored(outcome) ==
    /\ request_pc = "license"
    /\ Step("check_arxiv_license", outcome, "metadata")
    /\ UNCHANGED <<fdoc, fevents, fwrites, freply>>

\* start_arxiv_doc_import: fetch_utils.check_arxiv_license returns, raises
\* ValueError (the result holding the error is returned) or raises anything
\* else (INTERNAL is raised)
CheckArxivLicense(outcome) ==
    /\ request_pc = "license"
    /\ Step("check_arxiv_license", outcome,
            CASE outcome = "ok" -> "metadata"
              [] outcome = "ValueError" -> "returned"
              [] OTHER -> "raised")
    /\ UNCHANGED <<fdoc, fevents, fwrites, freply>>

\* fetch_utils.fetch_arxiv_metadata returns n entries: INTERNAL is raised
\* unless n is 1
FetchArxivMetadata(n) ==
    /\ request_pc = "metadata"
    /\ IF n = 1 THEN Step("fetch_arxiv_metadata", "ok", "throttle")
       ELSE Step("fetch_arxiv_metadata", "INTERNAL", "raised")
    /\ UNCHANGED <<fdoc, fevents, fwrites, freply>>

\* throttling.check_throttle returns or raises RESOURCE_EXHAUSTED
CheckThrottle(outcome) ==
    /\ request_pc = "throttle"
    /\ Step("check_throttle", outcome, IF outcome = "ok" THEN "write" ELSE "raised")
    /\ UNCHANGED <<fdoc, fevents, fwrites, freply>>

\* _try_doc_write(metadata, test_config), then the result is returned
TryDocWrite ==
    /\ request_pc = "write"
    /\ _try_doc_write
    /\ IF fdoc = "TIMEOUT" THEN Step("_try_doc_write", "DEADLINE_EXCEEDED", "raised")
       ELSE Step("_try_doc_write", "ok", "returned")

RequestNext ==
    \/ ValidateArguments
    \/ \E outcome \in {"ok", "ValueError", "Exception"} : CheckArxivLicense(outcome)
    \/ \E n \in 0..2 : FetchArxivMetadata(n)
    \/ \E outcome \in {"ok", "RESOURCE_EXHAUSTED"} : CheckThrottle(outcome)
    \/ TryDocWrite

\* One request, with any arxiv_id, for a document in any loading status.
RequestInit ==
    /\ JobInit /\ store = "pg" /\ nworkers = 1
    /\ FindIdle /\ InlineIdle /\ Idle("request_arxiv_doc_import")
    /\ fdoc \in {"ABSENT", "WAITING", "SUMMARIZING", "SUCCESS", "TIMEOUT",
                 "ERROR_DOCUMENT_LOAD", "ERROR_SUMMARIZING"} \cup RELOAD_ERROR_STATES
    /\ fevents = <<>> /\ finv = <<>> /\ fwrites = 0 /\ freply = "none"
    /\ request_arxiv_id \in UNION {[1..n -> {"1"}] : n \in 0..(ARXIV_ID_MAX_LENGTH + 1)}
    /\ request_pc = "received"
    /\ request_calls = <<>>

RequestSpec == RequestInit /\ [][RequestNext]_vars

\* ------------------------------------------ latex_utils.find_main_tex_file
\* A path is the directory below source_path and the file's name; a name is
\* its stem and its extension.
PREFERRED_MAIN_FILE_NAMES == {<<"main", ".tex">>, <<"ms", ".tex">>}

TexPaths ==
    {[dir |-> <<>>, name |-> <<"main", ".tex">>],
     [dir |-> <<>>, name |-> <<"ms", ".tex">>],
     [dir |-> <<>>, name |-> <<"paper", ".tex">>],
     [dir |-> <<>>, name |-> <<"notes", ".txt">>],
     [dir |-> <<"sub">>, name |-> <<"main", ".tex">>]}

\* What a path of the directory may be: no file, a file open() fails on, a
\* file without and a file with \documentclass in its content.
FileKinds == {"absent", "unreadable", "plain", "documentclass"}

\* str.endswith
endswith(name, ext) == Len(name) > 0 /\ name[Len(name)] = ext

\* Faulty variant: the whole path below the directory.
os_path_relpath(p) == p.dir \o p.name

os_path_basename(p) == p.name

find_main_tex_file(dir) ==
    LET valid_main_paths ==
            {p \in DOMAIN dir : /\ dir[p] # "absent"
                                /\ endswith(p.name, ".tex")
                                /\ dir[p] = "documentclass"}
        preferred_files ==
            {p \in valid_main_paths : os_path_basename(p) \in PREFERRED_MAIN_FILE_NAMES}
    IN  IF Cardinality(valid_main_paths) = 0
        THEN [called |-> TRUE, raised |-> "ValueError", ret |-> {}]
        ELSE IF Cardinality(valid_main_paths) > 1
        THEN IF Cardinality(preferred_files) = 1
             THEN [called |-> TRUE, raised |-> "", ret |-> preferred_files]
             ELSE [called |-> TRUE, raised |-> "ValueError", ret |-> {}]
        ELSE [called |-> TRUE, raised |-> "", ret |-> valid_main_paths]

\* find_main_tex_file(temp_dir) returns a path
FindReturns ==
    /\ ~main_tex_file.called
    /\ find_main_tex_file(source_path).raised = ""
    /\ main_tex_file' = find_main_tex_file(source_path)
    /\ UNCHANGED <<jvars, fvars, yvars, ivars, source_path>>

\* find_main_tex_file(temp_dir) raises ValueError
FindRaises ==
    /\ ~main_tex_file.called
    /\ find_main_tex_file(source_path).raised # ""
    /\ main_tex_file' = find_main_tex_file(source_path)
    /\ UNCHANGED <<jvars, fvars, yvars, ivars, source_path>>

\* The directory is any assignment of file kinds to the paths.
FindInit ==
    /\ JobInit /\ store = "pg" /\ nworkers = 1
    /\ FnIdle
    /\ InlineIdle
    /\ Idle("")
    /\ source_path \in [TexPaths -> FileKinds]
    /\ main_tex_file = NotCalled

FindNext == FindReturns \/ FindRaises

FindSpec == FindInit /\ [][FindNext]_vars

\* -------------------------------------------- latex_utils.inline_tex_files
\* A file's content is a sequence of items: a piece of text, or an \input /
\* \include command naming a file.  The files lie in one directory, so a path
\* is a file name (stem, extension).  The passes over the inlined string
\* (\bibliography, comments, custom commands) call _inline_tex_files no
\* further and are left out.
MainTex == <<"main", ".tex">>

TexFiles == {MainTex, <<"a", ".tex">>}

\* What the \input commands name: the main file without its extension, the
\* other file, and a file that does not exist.
Targets == {<<"main">>, <<"a", ".tex">>, <<"gone">>}

Items ==
    {[cmd |-> "text", arg |-> <<"x">>]} \cup {[cmd |-> "input", arg |-> t] : t \in Targets}

Contents == UNION {[1..n -> Items] : n \in 0..MaxItems}

\* Faulty variant: a file that is not found reads as a piece of text.
read_or_marker(files, path) ==
    IF path \in DOMAIN files THEN files[path] ELSE <<[cmd |-> "text", arg |-> <<"?">>]>>

\* open(path_to_read).read(), content staying "" on FileNotFoundError
read_or_empty(files, path) ==
    IF path \in DOMAIN files THEN files[path] ELSE <<>>

\* input_replacer: the path of the included file
included_file_path(relative_path) ==
    IF endswith(relative_path, ".tex") THEN relative_path ELSE Append(relative_path, ".tex")

\* A call of _inline_tex_files: its arguments, the next item of the content
\* input_pattern.sub is at, and the content inlined so far.
Call(path_to_read, depth) ==
    [path_to_read |-> path_to_read, max_depth |-> depth, pos |-> 1, inlined_content |-> <<>>]

Top == calls[Len(calls)]

\* The innermost call returns s: to the call whose replacer made it, or, for
\* the outermost call, to the future.
InlineReturn(s) ==
    IF Len(calls) = 1
    THEN /\ calls' = <<>>
         /\ future' = [future EXCEPT !.done = TRUE, !.result = s]
    ELSE /\ calls' = [SubSeq(calls, 1, Len(calls) - 1) EXCEPT
                         ![Len(calls) - 1].inlined_content = @ \o s,
                         ![Len(calls) - 1].pos = @ + 1]
         /\ UNCHANGED future

\* executor.submit(latex_utils.inline_tex_files, main_tex_file, ...)
InlineSubmit ==
    /\ ipc = "submit"
    /\ calls' = <<Call(MainTex, max_depth)>>
    /\ ipc' = "result"
    /\ UNCHANGED <<jvars, fvars, yvars, tvars, tex, max_depth, future, latex_string, formatted>>

\* if max_depth <= 0: warn, return ""
InlineDepthZero ==
    /\ calls # <<>>
    /\ Top.max_depth <= 0
    /\ InlineReturn(<<>>)
    /\ UNCHANGED <<jvars, fvars, yvars, tvars, tex, max_depth, ipc, latex_string, formatted>>

\* input_pattern.sub copies the text up to the next match
InlineText ==
    /\ calls # <<>>
    /\ Top.max_depth > 0
    /\ LET content == read_or_empty(tex, Top.path_to_read)
       IN  /\ Top.pos <= Len(content)
           /\ content[Top.pos].cmd = "text"
           /\ calls' = [calls EXCEPT ![Len(calls)].inlined_content = @ \o content[Top.pos].arg,
                                      ![Len(calls)].pos = @ + 1]
    /\ UNCHANGED <<jvars, fvars, yvars, tvars, tex, max_depth, future, ipc, latex_string, formatted>>

\* input_replacer calls _inline_tex_files(..., max_depth - 1, ...)
InlineInput ==
    /\ calls # <<>>
    /\ Top.max_depth > 0
    /\ LET content == read_or_empty(tex, Top.path_to_read)
       IN  /\ Top.pos <= Len(content)
           /\ content[Top.pos].cmd = "input"
           /\ calls' = Append(calls, Call(included_file_path(content[Top.pos].arg),
                                          Top.max_depth - 1))
    /\ UNCHANGED <<jvars, fvars, yvars, tvars, tex, max_depth, future, ipc, latex_string, formatted>>

\* return final_content
InlineEnd ==
    /\ calls # <<>>
    /\ Top.max_depth > 0
    /\ Top.pos > Len(read_or_empty(tex, Top.path_to_read))
    /\ InlineReturn(Top.inlined_content)
    /\ UNCHANGED <<jvars, fvars, yvars, tvars, tex, max_depth, ipc, latex_string, formatted>>

\* The thread of the executor running inline_tex_files.
InlineThread == InlineDepthZero \/ InlineText \/ InlineInput \/ InlineEnd

\* ------------------------------- import_pipeline.import_arxiv_latex_and_pdf
\* Faulty variant: the timeout keeps what the call has inlined so far.
latex_so_far(cs) == IF cs = <<>> THEN <<>> ELSE cs[1].inlined_content

\* except concurrent.futures.TimeoutError: latex_string = ""
latex_on_timeout(cs) == <<>>

\* latex_string = future.result(timeout=30) returns
ResultReturns ==
    /\ ipc = "result"
    /\ future.done
    /\ latex_string' = future.result
    /\ ipc' = "format"
    /\ UNCHANGED <<jvars, fvars, yvars, tvars, tex, max_depth, calls, future, formatted>>

\* future.result(timeout=30) raises TimeoutError: future.cancel(), which does
\* not stop the running call, and executor.shutdown(wait=False)
ResultTimesOut ==
    /\ ipc = "result"
    /\ ~future.done
    /\ latex_string' = latex_on_timeout(calls)
    /\ future' = [future EXCEPT !.cancel_called = TRUE]
    /\ ipc' = "format"
    /\ UNCHANGED <<jvars, fvars, yvars, tvars, tex, max_depth, calls, formatted>>

\* if len(latex_string) > MAX_LATEX_CHARACTER_COUNT: raise ValueError
TooLong ==
    /\ ipc = "format"
    /\ Len(latex_string) > MAX_LATEX_CHARACTER_COUNT
    /\ ipc' = "ValueError"
    /\ UNCHANGED <<jvars, fvars, yvars, tvars, tex, max_depth, calls, future, latex_string, formatted>>

\* gemini.format_pdf_with_latex(pdf_data=pdf_data, latex_string=latex_string, ...)
\* returns
Format ==
    /\ ipc = "format"
    /\ Len(latex_string) <= MAX_LATEX_CHARACTER_COUNT
    /\ formatted' = Append(formatted, latex_string)
    /\ ipc' = "convert"
    /\ UNCHANGED <<jvars, fvars, yvars, tvars, tex, max_depth, calls, future, latex_string>>

\* gemini.format_pdf_with_latex raises
FormatRaises ==
    /\ ipc = "format"
    /\ Len(latex_string) <= MAX_LATEX_CHARACTER_COUNT
    /\ formatted' = Append(formatted, latex_string)
    /\ ipc' = "GeminiError"
    /\ UNCHANGED <<jvars, fvars, yvars, tvars, tex, max_depth, calls, future, latex_string>>

Pipeline == InlineSubmit \/ ResultReturns \/ ResultTimesOut \/ TooLong \/ Format \/ FormatRaises

\* The source files are any contents of the two files, max_depth any depth.
InlineInit ==
    /\ JobInit /\ store = "pg" /\ nworkers = 1
    /\ FnIdle
    /\ FindIdle
    /\ Idle("")
    /\ tex \in [TexFiles -> Contents]
    /\ max_depth \in 0..MaxDepth
    /\ calls = <<>>
    /\ future = NoFuture
    /\ ipc = "submit"
    /\ latex_string = <<>>
    /\ formatted = <<>>

InlineNext == Pipeline \/ InlineThread

InlineSpec == InlineInit /\ [][InlineNext]_vars

\* The executor's thread runs on while it has a call to run, and the
\* pipeline goes on to its next statement.
InlineLiveSpec ==
    InlineInit /\ [][InlineNext]_vars /\ WF_vars(InlineThread) /\ WF_vars(Pipeline)

\* ----------------------------------------- image_utils.check_target_in_path
\* A string is a sequence of characters.  The characters of the model: two
\* letters, the dot, both separators and the newline.
Chars == {"c", "x", ".", "/", "\\", "\n"}

\* str.replace('\\', '/')
replace(str) == [i \in 1..Len(str) |-> IF str[i] = "\\" THEN "/" ELSE str[i]]

\* re.search of (^|/){escaped_target}(\.[^/.]+)?$, or of (^|/){escaped_target}$
\* when the target's basename has a dot, in the normalised full_path
check_target_in_path(path, tgt) ==
    LET p == replace(path)
        t == replace(tgt)
        \* os.path.basename(target): what follows the last '/'
        basename == SubSeq(t, Max({0} \cup {i \in 1..Len(t) : t[i] = "/"}) + 1, Len(t))
        extension_allowed == \A i \in 1..Len(basename) : basename[i] # "."
        rest(from) == SubSeq(p, from, Len(p))
        \* '$': the end of the string, or just before a newline that is its
        \* last character
        re_end(str) == str = <<>> \/ str = <<"\n">>
    IN  \E start \in 1..(Len(p) + 1) :
            /\ start = 1 \/ p[start - 1] = "/"
            /\ start + Len(t) - 1 <= Len(p)
            /\ SubSeq(p, start, start + Len(t) - 1) = t
            /\ \/ re_end(rest(start + Len(t)))
               \/ /\ extension_allowed
                  /\ start + Len(t) <= Len(p)
                  /\ p[start + Len(t)] = "."
                  /\ \E last \in (start + Len(t) + 1)..Len(p) :
                         /\ \A i \in (start + Len(t) + 1)..last : p[i] \notin {"/", "."}
                         /\ re_end(rest(last + 1))

CheckTargetInPath ==
    /\ in_path = ""
    /\ in_path' = IF check_target_in_path(full_path, target) THEN "True" ELSE "False"
    /\ UNCHANGED <<jvars, fvars, tvars, ivars, evars, cvars, rvars, uvars, zvars, full_path, target>>

\* full_path and target are any strings up to their lengths.
CheckInit ==
    /\ Frozen
    /\ Idle("check_target_in_path")
    /\ full_path \in UNION {[1..k -> Chars] : k \in 0..MaxPath}
    /\ target \in UNION {[1..k -> Chars] : k \in 0..MaxTarget}
    /\ in_path = ""

CheckSpec == CheckInit /\ [][CheckTargetInPath]_vars

\* ------------------------------ image_utils.extract_images_from_latex_source
\* The files the source directory may hold, and the latex_path values of the
\* images: paths are strings, a run of letters written as one character.
SourceFiles ==
    {<<"s", "/", "c", ".", "png">>, <<"s", "/", "x", "/", "c", ".", "png">>,
     <<"s", "/", "c", ".", "pdf">>}

LatexPaths == {<<"c">>, <<"c", ".", "png">>, <<"x", "/", "c">>, <<"e">>}

\* _create_image_content: the storage path is the images directory and the
\* path with STORAGE_PATH_DELIMETER for each '/'
ImageContent(latex_path) ==
    [latex_path |-> latex_path,
     storage_path |-> <<"images", "/">> \o
                      [i \in 1..Len(latex_path) |->
                          IF latex_path[i] = "/" THEN "STORAGE_PATH_DELIMETER"
                                                 ELSE latex_path[i]],
     width |-> 0, height |-> 0]

\* Faulty variant: the search stops at the first file that matches.
found_first(dir, latex_path) ==
    LET found == {f \in dir : check_target_in_path(f, latex_path)}
    IN  IF found = {} THEN {} ELSE {CHOOSE f \in found : TRUE}

\* found_paths: the files of os.walk(source_dir) check_target_in_path accepts
found_paths(dir, latex_path) == {f \in dir : check_target_in_path(f, latex_path)}

\* source_image_path.lower().endswith('.pdf')
is_pdf(path) ==
    /\ Len(path) >= 2
    /\ path[Len(path) - 1] = "."
    /\ path[Len(path)] \in {"pdf", "PDF"}

\* str(Path(storage_path).with_name(f"{path.stem}_pdf.png")): the name loses
\* its last suffix and gets _pdf.png
pdf_storage_path(storage_path) ==
    LET slash == Max({0} \cup {i \in 1..Len(storage_path) : storage_path[i] = "/"})
        dot == Max({0} \cup {i \in (slash + 2)..Len(storage_path) : storage_path[i] = "."})
        stem_end == IF dot = 0 THEN Len(storage_path) ELSE dot - 1
    IN  SubSeq(storage_path, 1, stem_end) \o <<"_pdf", ".", "png">>

\* The image the loop is at, the file found for it, and the storage path
\* after the PDF conversion logic.
Current == image_contents[image_index]

\* if len(found_paths) == 0: warn, continue
ImageNotFound ==
    /\ extract_pc = "loop"
    /\ image_index <= Len(image_contents)
    /\ found_paths(source_dir, Current.latex_path) = {}
    /\ warned' = Append(warned, "not found")
    /\ image_index' = image_index + 1
    /\ UNCHANGED <<jvars, fvars, tvars, ivars, cvars, rvars, uvars, zvars, full_path, target, in_path, source_dir,
                   image_contents, extract_pc, processed_image_metadata, named_paths, uploads, image_path>>

\* if len(found_paths) > 1: raise ValueError naming found_paths
ImageAmbiguous ==
    /\ extract_pc = "loop"
    /\ image_index <= Len(image_contents)
    /\ Cardinality(found_paths(source_dir, Current.latex_path)) > 1
    /\ named_paths' = found_paths(source_dir, Current.latex_path)
    /\ extract_pc' = "ValueError"
    /\ UNCHANGED <<jvars, fvars, tvars, ivars, cvars, rvars, uvars, zvars, full_path, target, in_path, source_dir,
                   image_contents, image_index, processed_image_metadata, warned, uploads, image_path>>

\* Faulty variant: a failure at the upload is raised to the caller.
ImageFailsAndRaises(stage) ==
    /\ extract_pc = "loop"
    /\ image_index <= Len(image_contents)
    /\ Cardinality(found_paths(source_dir, Current.latex_path)) = 1
    /\ stage = "upload"
    /\ warned' = Append(warned, stage)
    /\ extract_pc' = "Exception"
    /\ UNCHANGED <<jvars, fvars, tvars, ivars, cvars, rvars, uvars, zvars, full_path, target, in_path, source_dir,
                   image_contents, image_index, processed_image_metadata, named_paths,
                   uploads, image_path>>

\* One file was found and a later stage raises: the PDF conversion (before
\* image_content.storage_path is assigned), Image.open, or the upload / the
\* local copy; each is caught, warned about, and the loop continues.
ImageFails(stage) ==
    /\ extract_pc = "loop"
    /\ image_index <= Len(image_contents)
    /\ Cardinality(found_paths(source_dir, Current.latex_path)) = 1
    /\ LET source_image_path == CHOOSE f \in found_paths(source_dir, Current.latex_path) : TRUE
       IN  /\ stage = "convert" => is_pdf(source_image_path)
           /\ image_contents' =
                  IF is_pdf(source_image_path) /\ stage # "convert"
                  THEN [image_contents EXCEPT ![image_index].storage_path =
                                                 pdf_storage_path(Current.storage_path)]
                  ELSE image_contents
    /\ warned' = Append(warned, stage)
    /\ image_index' = image_index + 1
    /\ UNCHANGED <<jvars, fvars, tvars, ivars, cvars, rvars, uvars, zvars, full_path, target, in_path, source_dir,
                   extract_pc, processed_image_metadata, named_paths, uploads, image_path>>

\* One file was found and every stage succeeds: the file is stored, the
\* ImageContent gets its dimensions and its metadata is appended.
ImageProcessed ==
    /\ extract_pc = "loop"
    /\ image_index <= Len(image_contents)
    /\ Cardinality(found_paths(source_dir, Current.latex_path)) = 1
    /\ \E size \in {<<1, 1>>, <<2, 1>>} :
        LET source_image_path == CHOOSE f \in found_paths(source_dir, Current.latex_path) : TRUE
            storage_path == IF is_pdf(source_image_path)
                            THEN pdf_storage_path(Current.storage_path)
                            ELSE Current.storage_path
        IN  /\ uploads' = uploads \cup {storage_path}
            /\ image_contents' = [image_contents EXCEPT ![image_index] =
                                     [@ EXCEPT !.storage_path = storage_path,
                                               !.width = size[1], !.height = size[2]]]
            /\ processed_image_metadata' =
                   Append(processed_image_metadata,
                          [storage_path |-> storage_path, width |-> size[1], height |-> size[2]])
    /\ image_index' = image_index + 1
    /\ UNCHANGED <<jvars, fvars, tvars, ivars, cvars, rvars, uvars, zvars, full_path, target, in_path, source_dir,
                   extract_pc, named_paths, warned, image_path>>

\* return processed_image_metadata
ExtractReturns ==
    /\ extract_pc = "loop"
    /\ image_index > Len(image_contents)
    /\ extract_pc' = "returned"
    /\ UNCHANGED <<jvars, fvars, tvars, ivars, cvars, rvars, uvars, zvars, full_path, target, in_path, source_dir,
                   image_contents, image_index, processed_image_metadata, named_paths,
                   warned, uploads, image_path>>

\* import_arxiv_latex_and_pdf: images is the list extract_images_from_latex_source
\* returned; image_utils.extract_images_from_pdf_bytes is called with the
\* images whose width and height are 0 and its result is appended to images.
\* Of the images it is given it resolves any, in their order.
PdfFallback ==
    /\ extract_pc = "returned"
    /\ LET missing_images ==
               {i \in 1..Len(image_contents) :
                   image_contents[i].width = 0 /\ image_contents[i].height = 0}
       IN  \E resolved \in SUBSET missing_images :
               LET nth(k) == CHOOSE i \in resolved : Cardinality({j \in resolved : j < i}) = k - 1
                   fallback_images ==
                       [k \in 1..Cardinality(resolved) |->
                           [storage_path |-> image_contents[nth(k)].storage_path,
                            width |-> 1, height |-> 1]]
               IN  /\ missing_images = {} => resolved = {}
                   /\ image_contents' =
                          [i \in 1..Len(image_contents) |->
                              IF i \in resolved
                              THEN [image_contents[i] EXCEPT !.width = 1, !.height = 1]
                              ELSE image_contents[i]]
                   /\ uploads' = uploads \cup {image_contents[i].storage_path : i \in resolved}
                   /\ processed_image_metadata' = processed_image_metadata \o fallback_images
    /\ extract_pc' = "fallback done"
    /\ UNCHANGED <<jvars, fvars, tvars, ivars, cvars, rvars, uvars, zvars, full_path, target, in_path, source_dir,
                   image_index, named_paths, warned, image_path>>

\* if len(images) > 0: image_path = images[0].storage_path; return
ImportReturns ==
    /\ extract_pc = "fallback done"
    /\ image_path' = IF Len(processed_image_metadata) > 0
                     THEN processed_image_metadata[1].storage_path
                     ELSE <<>>
    /\ extract_pc' = "imported"
    /\ UNCHANGED <<jvars, fvars, tvars, ivars, cvars, rvars, uvars, zvars, full_path, target, in_path, source_dir,
                   image_contents, image_index, processed_image_metadata, named_paths,
                   warned, uploads>>

ExtractNext ==
    \/ ImageNotFound
    \/ ImageAmbiguous
    \/ \E stage \in {"convert", "dimensions", "upload"} : ImageFails(stage)
    \/ ImageProcessed
    \/ ExtractReturns
    \/ PdfFallback
    \/ ImportReturns

\* The directory holds any of the files, and up to MaxImages images with any
\* of the paths are to be resolved.
ExtractInit ==
    /\ Frozen
    /\ Idle("extract_images_from_latex_source")
    /\ source_dir \in SUBSET SourceFiles
    /\ image_contents \in UNION {[1..n -> {ImageContent(l) : l \in LatexPaths}] : n \in 0..MaxImages}
    /\ image_index = 1
    /\ extract_pc = "loop"
    /\ processed_image_metadata = <<>>
    /\ named_paths = {}
    /\ warned = <<>>
    /\ uploads = {}
    /\ image_path = <<>>

ExtractSpec == ExtractInit /\ [][ExtractNext]_vars

\* ------------- import_pipeline.convert_model_output_to_lumi_doc, answers.generate_lumi_answer
\* A text is a sequence of atoms [t, id]: "w" a paragraph of words, "$" a
\* paragraph that is an equation, "#" a heading line, "#$" a heading line
\* holding an equation, "[fig" and "fig]" the opening and closing tags of a
\* multi-image figure block, "img" an image tag with its caption, "html" a
\* raw-HTML figure block. The placeholder of id n is the atom
\* ["PLACEHOLDER", n]; a heading line holding it is ["#PLACEHOLDER", n].
Atoms == {[t |-> k, id |-> 0] : k \in {"w", "$", "#", "#$", "[fig", "fig]", "img", "html"}}

\* _get_placeholder_id: PLACEHOLDER_PREFIX + uid + PLACEHOLDER_SUFFIX
_get_placeholder_id(uid) == [t |-> "PLACEHOLDER", id |-> uid]

LumiContent(kind, text, images) == [kind |-> kind, text |-> text, images |-> images]

\* Faulty variant: the figure blocks are not looked for.
no_figure_sub(string, acc) == [acc EXCEPT !.out = acc.out \o string]

\* import_tags.FIGURE_PATTERN.sub(figure_replacer, string), from the left: the
\* first opening tag that has a closing tag after it matches up to the first
\* such closing tag, the image tags between them become the figure's images,
\* and the search goes on after the match. acc holds the text written so far,
\* the placeholder map and the ids handed out.
RECURSIVE figure_sub(_, _)
figure_sub(string, acc) ==
    LET opens == {a \in 1..Len(string) :
                     /\ string[a].t = "[fig"
                     /\ \E b \in (a + 1)..Len(string) : string[b].t = "fig]"}
    IN  IF opens = {} THEN [acc EXCEPT !.out = acc.out \o string]
        ELSE LET a == CHOOSE x \in opens : \A y \in opens : x <= y
                 b == CHOOSE x \in (a + 1)..Len(string) :
                         /\ string[x].t = "fig]"
                         /\ \A y \in (a + 1)..(x - 1) : string[y].t # "fig]"
                 id == acc.ids + 1
                 sub_images == {i \in (a + 1)..(b - 1) : string[i].t = "img"}
             IN  figure_sub(SubSeq(string, b + 1, Len(string)),
                            [out |-> acc.out \o SubSeq(string, 1, a - 1)
                                             \o <<_get_placeholder_id(id)>>,
                             map |-> (_get_placeholder_id(id) :>
                                         LumiContent("figure", <<>>, Cardinality(sub_images)))
                                     @@ acc.map,
                             ids |-> id])

\* pattern.sub(replacer, string) for a pattern that matches the one atom tag
\* (HTML_FIGURE_PATTERN with html_figure_replacer, IMAGE_AND_CAPTION_PATTERN
\* with image_replacer; extract_equations_to_placeholders for the equations,
\* in a paragraph or in a heading line): each match gets the next id.
tag_sub(string, tag, kind, acc) ==
    LET matches == {i \in 1..Len(string) : string[i].t \in {tag, "#" \o tag}}
        id(i) == acc.ids + Cardinality({j \in matches : j <= i})
        replaced(i) == IF string[i].t = tag THEN _get_placeholder_id(id(i))
                       ELSE [t |-> "#PLACEHOLDER", id |-> id(i)]
    IN  [out |-> acc.out \o [i \in 1..Len(string) |->
                                IF i \in matches THEN replaced(i) ELSE string[i]],
         map |-> [p \in {_get_placeholder_id(id(i)) : i \in matches} |->
                     LumiContent(kind, <<>>, 0)] @@ acc.map,
         ids |-> acc.ids + Cardinality(matches)]

\* markdown_to_html and convert_to_lumi_sections, as the contents of all the
\* sections in order: a heading line opens a section and is no content, a
\* placeholder becomes the content stored for it (it stays as text when the
\* map has none), anything else is a text content.
convert_to_lumi_sections(html, map) ==
    LET content(atom) ==
            IF atom.t = "PLACEHOLDER" /\ atom \in DOMAIN map THEN map[atom]
            ELSE LumiContent("text", <<atom>>, 0)
        IsContent(atom) == atom.t \notin {"#", "#PLACEHOLDER"}
        kept == SelectSeq(html, IsContent)
    IN  [i \in 1..Len(kept) |-> content(kept[i])]

Acc == [out |-> <<>>, map |-> placeholder_map, ids |-> unique_ids]

Replaced(acc, pc) ==
    /\ processed_html' = acc.out
    /\ placeholder_map' = acc.map
    /\ unique_ids' = acc.ids
    /\ convert_pc' = pc
    /\ UNCHANGED <<jvars, fvars, tvars, ivars, evars, rvars, uvars, zvars, full_path, target,
                   in_path, converter, raw_markdown_string, converted, response_content>>

\* processed_html = import_tags.FIGURE_PATTERN.sub(figure_replacer, raw_markdown_string)
SubFigures ==
    /\ converter = "convert_model_output_to_lumi_doc"
    /\ convert_pc = "start"
    /\ Replaced(figure_sub(raw_markdown_string, Acc), "figures")

\* processed_html = import_tags.HTML_FIGURE_PATTERN.sub(html_figure_replacer, processed_html)
SubHtmlFigures ==
    /\ convert_pc = "figures"
    /\ Replaced(tag_sub(processed_html, "html", "html_figure", Acc), "html_figures")

\* processed_html = import_tags.IMAGE_AND_CAPTION_PATTERN.sub(image_replacer, processed_html)
SubImages ==
    /\ convert_pc = "html_figures"
    /\ Replaced(tag_sub(processed_html, "img", "image", Acc), "images")

\* The rest of convert_model_output_to_lumi_doc, for a model output that is
\* all content: the equations are extracted, the tree is built with the
\* combined map, and the LumiDoc holds the sections as built.
ConvertModelOutput ==
    /\ convert_pc = "images"
    /\ LET extracted == tag_sub(processed_html, "$", "equation",
                                [out |-> <<>>, map |-> <<>>, ids |-> unique_ids])
           combined_placeholder_map == extracted.map @@ placeholder_map
           lumi_sections == convert_to_lumi_sections(extracted.out, combined_placeholder_map)
       IN  /\ processed_html' = extracted.out
           /\ placeholder_map' = combined_placeholder_map
           /\ unique_ids' = extracted.ids
           /\ converted' = lumi_sections
           /\ response_content' = lumi_sections
    /\ convert_pc' = "done"
    /\ UNCHANGED <<jvars, fvars, tvars, ivars, evars, rvars, uvars, zvars, full_path, target,
                   in_path, converter, raw_markdown_string>>

\* generate_lumi_answer from the model's response on: markdown_response is
\* reassigned to the text with the equations extracted, the tree is built with
\* the equation map, and when it has no content the answer's one content is a
\* text content whose span's text is markdown_response.
GenerateLumiAnswer ==
    /\ converter = "generate_lumi_answer"
    /\ convert_pc = "start"
    /\ LET extracted == tag_sub(raw_markdown_string, "$", "equation", Acc)
           markdown_response == extracted.out
           equation_map == extracted.map
           contents == convert_to_lumi_sections(markdown_response, equation_map)
       IN  /\ processed_html' = markdown_response
           /\ placeholder_map' = equation_map
           /\ unique_ids' = extracted.ids
           /\ converted' = contents
           /\ response_content' =
                  IF contents = <<>> THEN <<LumiContent("text", markdown_response, 0)>>
                  ELSE contents
    /\ convert_pc' = "done"
    /\ UNCHANGED <<jvars, fvars, tvars, ivars, evars, rvars, uvars, zvars, full_path, target,
                   in_path, converter, raw_markdown_string>>

ConvertNext ==
    \/ SubFigures
    \/ SubHtmlFigures
    \/ SubImages
    \/ ConvertModelOutput
    \/ GenerateLumiAnswer

\* Either function is given any text of up to MaxAtoms atoms.
ConvertInit ==
    /\ Frozen
    /\ Idle("convert")
    /\ converter \in {"convert_model_output_to_lumi_doc", "generate_lumi_answer"}
    /\ raw_markdown_string \in UNION {[1..n -> Atoms] : n \in 0..MaxAtoms}
    /\ convert_pc = "start"
    /\ processed_html = <<>>
    /\ placeholder_map = <<>>
    /\ unique_ids = 0
    /\ converted = <<>>
    /\ response_content = <<>>

ConvertSpec == ConvertInit /\ [][ConvertNext]_vars

\* ------------------------------------------------- worker.process_job, by itself
\* The version of a job is the version the request named, or "" for a request
\* without one (JobRecord.version is None); the version arXiv answers with is
\* its latest.
Versions == {"1", "2"}

PersistFrame ==
    UNCHANGED <<jvars, fvars, tvars, ivars, full_path, target, in_path, evars, cvars, rvars,
                uvars, qvars, mvars>>

\* process_job is called with the claimed job.
ProcessJob ==
    /\ process_pc = "idle"
    /\ process_pc' = "called"
    /\ UNCHANGED <<pjob, metadata_version, saved_docs, doc_paths>>
    /\ PersistFrame

\* In-memory/dev path of a job that is no local upload:
\* db.update_job_status(job.job_id, LoadingStatus.SUCCESS); return
ProcessStub ==
    /\ process_pc = "called"
    /\ ~_is_local_id(pjob.arxiv_id)
    /\ stub
    /\ pjob' = [pjob EXCEPT !.status = "SUCCESS"]
    /\ process_pc' = "done"
    /\ UNCHANGED <<metadata_version, saved_docs, doc_paths>>
    /\ PersistFrame

\* A local upload: metadata = ArxivMetadata(paper_id=job.arxiv_id,
\* version=job.version or "1", ...)
ProcessLocalMetadata ==
    /\ process_pc = "called"
    /\ _is_local_id(pjob.arxiv_id)
    /\ metadata_version' = IF pjob.version = "" THEN "1" ELSE pjob.version
    /\ process_pc' = "fetched"
    /\ UNCHANGED <<pjob, saved_docs, doc_paths>>
    /\ PersistFrame

\* metadata = fetch_utils.fetch_arxiv_metadata([job.arxiv_id])[0]: the entry
\* arXiv returns for the unversioned id, with the version v of that entry.
ProcessFetchMetadata(v) ==
    /\ process_pc = "called"
    /\ ~_is_local_id(pjob.arxiv_id)
    /\ ~stub
    /\ metadata_version' = v
    /\ process_pc' = "fetched"
    /\ UNCHANGED <<pjob, saved_docs, doc_paths>>
    /\ PersistFrame

\* db.save_lumi_doc(job.arxiv_id, metadata.version, doc_json, summaries_json)
ProcessSave ==
    /\ process_pc = "fetched"
    /\ saved_docs' = saved_docs \cup {<<pjob.arxiv_id, metadata_version>>}
    /\ process_pc' = "saved"
    /\ UNCHANGED <<pjob, metadata_version, doc_paths>>
    /\ PersistFrame

\* base_path = f"papers/{job.arxiv_id}/v{metadata.version}"; the two
\* upload_json calls, then status SUCCESS.
ProcessUpload ==
    /\ process_pc = "saved"
    /\ doc_paths' = doc_paths \cup {<<pjob.arxiv_id, metadata_version>>}
    /\ pjob' = [pjob EXCEPT !.status = "SUCCESS"]
    /\ process_pc' = "done"
    /\ UNCHANGED <<metadata_version, saved_docs>>
    /\ PersistFrame

\* An exception of the pipeline or of an upload: ERROR_DOCUMENT_LOAD.
ProcessExcept ==
    /\ process_pc \in {"called", "fetched", "saved"}
    /\ _is_local_id(pjob.arxiv_id) \/ ~stub
    /\ pjob' = [pjob EXCEPT !.status = "ERROR_DOCUMENT_LOAD"]
    /\ process_pc' = "done"
    /\ UNCHANGED <<metadata_version, saved_docs, doc_paths>>
    /\ PersistFrame

\* db.get_lumi_doc(arxiv_id, version) returns a document.
get_lumi_doc(arxiv_id, version) == <<arxiv_id, version>> \in saved_docs

PersistNext ==
    \/ ProcessJob
    \/ ProcessStub
    \/ ProcessLocalMetadata
    \/ \E v \in Versions : ProcessFetchMetadata(v)
    \/ ProcessSave
    \/ ProcessUpload
    \/ ProcessExcept

\* A claimed job of an arXiv paper, requested with a version or without one,
\* or of a local upload (version "1", routes.request_local_pdf_import), and
\* the documents saved by earlier jobs.
PersistInit ==
    /\ JobInit /\ nworkers = 1
    /\ FnIdle /\ FindIdle /\ InlineIdle
    /\ Idle("process_job")
    /\ pjob \in [arxiv_id : {ArxivId}, version : Versions \cup {""}, status : {"SUMMARIZING"}]
                \cup [arxiv_id : {LocalIds[1]}, version : {"1"}, status : {"SUMMARIZING"}]
    /\ process_pc = "idle"
    /\ metadata_version = ""
    /\ saved_docs \in SUBSET ({ArxivId, LocalIds[1]} \X Versions)
    /\ doc_paths = {}

PersistSpec == PersistInit /\ [][PersistNext]_vars

\* ------------------------------------------------------ queue.InMemoryJobQueue
\* One InMemoryJobQueue shared by the worker threads of a process.  enqueue
\* is one list.append; dequeue is a test of the list followed by a
\* list.pop(0), with no lock around the two, so another thread's call can run
\* between them.  A call that has ended is recorded with the thread, the
\* value returned (None when nothing is returned) and whether it raised.
QueueFrame ==
    UNCHANGED <<jvars, fvars, tvars, ivars, full_path, target, in_path, evars, cvars, rvars,
                uvars, pvars, mvars>>

Returned(t, job_id) == [thread |-> t, ret |-> job_id, raised |-> FALSE]

IndexError(t) == [thread |-> t, ret |-> None, raised |-> TRUE]

\* enqueue: self.items.append(job_id), with a job_id not used before.
QueueEnqueue ==
    /\ Len(enqueued) < MaxJobs
    /\ items' = Append(items, Len(enqueued) + 1)
    /\ enqueued' = Append(enqueued, Len(enqueued) + 1)
    /\ UNCHANGED <<dequeue_pc, dequeue_calls>>
    /\ QueueFrame

\* dequeue: if not self.items: return None
QueueDequeueTest(t) ==
    /\ dequeue_pc[t] = "idle"
    /\ Len(dequeue_calls) < MaxJobs + MaxCalls
    /\ IF items = <<>>
       THEN /\ dequeue_calls' = Append(dequeue_calls, Returned(t, None))
            /\ UNCHANGED dequeue_pc
       ELSE /\ dequeue_pc' = [dequeue_pc EXCEPT ![t] = "pop"]
            /\ UNCHANGED dequeue_calls
    /\ UNCHANGED <<items, enqueued>>
    /\ QueueFrame

\* dequeue: return self.items.pop(0); pop of an empty list raises IndexError.
QueueDequeuePop(t) ==
    /\ dequeue_pc[t] = "pop"
    /\ IF items = <<>>
       THEN /\ dequeue_calls' = Append(dequeue_calls, IndexError(t))
            /\ UNCHANGED items
       ELSE /\ dequeue_calls' = Append(dequeue_calls, Returned(t, Head(items)))
            /\ items' = Tail(items)
    /\ dequeue_pc' = [dequeue_pc EXCEPT ![t] = "idle"]
    /\ UNCHANGED enqueued
    /\ QueueFrame

QueueNext ==
    \/ QueueEnqueue
    \/ \E t \in Workers : QueueDequeueTest(t)
    \/ \E t \in Workers : QueueDequeuePop(t)

QueueInit ==
    /\ Frozen
    /\ Idle("dequeue")
    /\ items = <<>>
    /\ dequeue_pc = [t \in Workers |-> "idle"]
    /\ dequeue_calls = <<>>
    /\ enqueued = <<>>

QueueSpec == QueueInit /\ [][QueueNext]_vars

\* ------------------------------------ latex_utils._inline_tex_files, Step 3
\* The content is a string of up to MaxChars characters: a letter, a space,
\* a percent sign, a backslash or a newline.
TexChars == {"a", " ", "%", "\\", "\n"}

CommentsFrame ==
    UNCHANGED <<jvars, fvars, tvars, ivars, full_path, target, in_path, evars, cvars, rvars,
                uvars, pvars, qvars>>

\* \s matches the space and the newline.
Whitespace == {" ", "\n"}

\* ^ under re.MULTILINE: the start of the string or the position after a
\* newline.
LineStart(s, i) == i = 1 \/ s[i - 1] = "\n"

\* (?<!\\)%: a percent sign not preceded by a backslash.
UnescapedPercent(s, i) == i <= Len(s) /\ s[i] = "%" /\ (i = 1 \/ s[i - 1] # "\\")

\* \s*, greedy: the position after the whitespace that starts at i.
RECURSIVE SkipWhitespace(_, _)
SkipWhitespace(s, i) ==
    IF i <= Len(s) /\ s[i] \in Whitespace THEN SkipWhitespace(s, i + 1) ELSE i

\* The position of the first newline at or after i, 0 when there is none.
RECURSIVE FirstNewline(_, _)
FirstNewline(s, i) ==
    IF i > Len(s) THEN 0
    ELSE IF s[i] = "\n" THEN i
    ELSE FirstNewline(s, i + 1)

\* ^\s*(?<!\\)%.*?\n matched at i: the position of the last character of the
\* match, 0 when there is no match at i.
FullLineCommentEnd(s, i) ==
    LET percent == SkipWhitespace(s, i)
    IN  IF LineStart(s, i) /\ UnescapedPercent(s, percent)
        THEN FirstNewline(s, percent)
        ELSE 0

\* re.sub(r"^\s*(?<!\\)%.*?\n", "", s, flags=re.MULTILINE) from position i:
\* the leftmost match is dropped and the search goes on after it.
RECURSIVE remove_full_line_comments(_, _)
remove_full_line_comments(s, i) ==
    IF i > Len(s) THEN <<>>
    ELSE IF FullLineCommentEnd(s, i) # 0
    THEN remove_full_line_comments(s, FullLineCommentEnd(s, i) + 1)
    ELSE <<s[i]>> \o remove_full_line_comments(s, i + 1)

\* re.sub(r"(?<!\\)%.*?$", "", s, flags=re.MULTILINE) from position i:
\* in_comment says that a match has begun on the line of i.
RECURSIVE remove_inline_comments(_, _, _)
remove_inline_comments(s, i, in_comment) ==
    IF i > Len(s) THEN <<>>
    ELSE IF s[i] = "\n" THEN <<s[i]>> \o remove_inline_comments(s, i + 1, FALSE)
    ELSE IF in_comment \/ UnescapedPercent(s, i) THEN remove_inline_comments(s, i + 1, TRUE)
    ELSE <<s[i]>> \o remove_inline_comments(s, i + 1, FALSE)

\* content_no_full_line_comments = re.sub(r"^\s*(?<!\\)%.*?\n", "", final_content, ...)
RemoveFullLineComments ==
    /\ comments_pc = "called"
    /\ content_no_full_line_comments' = remove_full_line_comments(inlined_content, 1)
    /\ comments_pc' = "lines"
    /\ UNCHANGED <<inlined_content, final_content>>
    /\ CommentsFrame

\* final_content = re.sub(r"(?<!\\)%.*?$", "", content_no_full_line_comments, ...)
RemoveInlineComments ==
    /\ comments_pc = "lines"
    /\ final_content' = remove_inline_comments(content_no_full_line_comments, 1, FALSE)
    /\ comments_pc' = "done"
    /\ UNCHANGED <<inlined_content, content_no_full_line_comments>>
    /\ CommentsFrame

CommentsNext == RemoveFullLineComments \/ RemoveInlineComments

\* _inline_tex_files has reached Step 3 with remove_comments set, for any
\* content.
CommentsInit ==
    /\ Frozen
    /\ Idle("remove_comments")
    /\ inlined_content \in UNION {[1..n -> TexChars] : n \in 0..MaxChars}
    /\ content_no_full_line_comments = <<>>
    /\ final_content = <<>>
    /\ comments_pc = "called"

CommentsSpec == CommentsInit /\ [][CommentsNext]_vars

\* ================================================================ claims
\* The step of worker w in which claim_next_waiting_job returns job j.
ClaimReturns(w, j) ==
    /\ wpc[w] \in {"claim", "poll"}
    /\ wpc'[w] = "start"
    /\ wclaimed'[w] = j

\* The step in which worker w runs requeue_stale_locks.
RequeueStep(w) == wpc[w] = "loop" /\ wpc'[w] = "dequeue"

WorkerStep == \E w \in Workers : wpc'[w] # wpc[w]

\* A step of a worker that claims job j or is processing it.
WorkerActsOn(j) ==
    \E w \in Workers :
        /\ wpc'[w] # wpc[w]
        /\ wjob[w] = j \/ wclaimed'[w] = j

C2_DequeuedJobIsClaimed ==
    [][\A w \in Workers :
          (/\ wpc[w] = "claim"
           /\ wpc'[w] = "start"
           /\ jobs[wjob[w]].status = "WAITING")
          => /\ jobs'[wjob[w]].status # "WAITING"
             /\ jobs'[wjob[w]].locked_at # None]_vars

\* C3 as stated: a job is created WAITING / WAITING / 0 / unlocked, and
\* stays WAITING until a worker claims it or, processing it, updates it.
C3_WaitingUntilWorker ==
    [][/\ \A j \in JobIds(jobs') \ JobIds(jobs) :
             /\ jobs'[j].status = "WAITING"
             /\ jobs'[j].stage = "WAITING"
             /\ jobs'[j].progress_percent = 0
             /\ jobs'[j].locked_at = None
       /\ \A j \in JobIds(jobs) :
             (jobs[j].status = "WAITING" /\ jobs'[j].status # "WAITING")
             => WorkerActsOn(j)]_vars

\* C3: a job is created WAITING / WAITING / 0 / unlocked, and stays WAITING
\* until a worker claims it or, processing it, updates it, or the
\* local-upload handler that created it marks it SUCCESS / DEDUPED.
C3_WaitingUntilWorkerOrDedupe ==
    [][/\ \A j \in JobIds(jobs') \ JobIds(jobs) :
             /\ jobs'[j].status = "WAITING"
             /\ jobs'[j].stage = "WAITING"
             /\ jobs'[j].progress_percent = 0
             /\ jobs'[j].locked_at = None
       /\ \A j \in JobIds(jobs) :
             (jobs[j].status = "WAITING" /\ jobs'[j].status # "WAITING")
             => \/ WorkerActsOn(j)
                \/ /\ hpc[j] = "dedupe_update"
                   /\ hpc'[j] = "done"
                   /\ jobs'[j].status = "SUCCESS"
                   /\ jobs'[j].stage = "DEDUPED"]_vars

\* C3 witness: a job created by the dedupe branch has left WAITING by the
\* handler's own update, no worker having claimed it.
C3_Witness ==
    \E j \in JobIds(jobs) :
        /\ hpc[j] = "done"
        /\ jobs[j].stage = "DEDUPED"
        /\ jobs[j].locked_at = None
        /\ claims[j] = 0
        /\ \A w \in Workers : wjob[w] # j

\* C4: the record claim_next_waiting_job returns is no longer WAITING, has
\* stage CLAIMED and has locked_at set, in either store.
C4_ClaimSetsClaimedStage ==
    [][\A w \in Workers : \A j \in JobIds(jobs) :
          ClaimReturns(w, j)
          => /\ jobs'[j].status # "WAITING"
             /\ jobs'[j].stage = "CLAIMED"
             /\ jobs'[j].locked_at # None]_vars

\* C5: a job whose status is SUCCESS has progress_percent 1.0.
C5_SuccessMeansFullProgress ==
    \A j \in JobIds(jobs) :
        jobs[j].status = "SUCCESS" => jobs[j].progress_percent = 100

\* C6: requeue_stale_locks resets exactly the records with status
\* SUMMARIZING, stage CLAIMED and a locked_at older than the timeout to
\* WAITING / WAITING / 0 / unlocked, leaves every other record as it was, and
\* returns the number of records it reset.
C6_RequeueResetsExactlyStale ==
    [][\A w \in Workers :
          RequeueStep(w)
          => /\ \A j \in JobIds(jobs) :
                   IF /\ jobs[j].status = "SUMMARIZING"
                      /\ jobs[j].stage = "CLAIMED"
                      /\ jobs[j].locked_at # None
                      /\ now - jobs[j].locked_at > LockTimeout
                   THEN jobs'[j] = [arxiv_id |-> jobs[j].arxiv_id,
                                    status |-> "WAITING", stage |-> "WAITING",
                                    progress_percent |-> 0, locked_at |-> None]
                   ELSE jobs'[j] = jobs[j]
             /\ requeue_stale_locks(jobs, now, LockTimeout).ret
                   = Cardinality({j \in JobIds(jobs) : jobs'[j] # jobs[j]})
             /\ JobIds(jobs') = JobIds(jobs)]_vars

\* C6 witness: requeue_stale_locks has reset a job, which is WAITING and
\* unlocked again.
C6_Witness ==
    \E j \in JobIds(jobs) :
        /\ requeues[j] > 0
        /\ jobs[j].status = "WAITING"
        /\ jobs[j].stage = "WAITING"
        /\ jobs[j].locked_at = None

\* Job j was claimed by a worker that has stopped, no running worker is
\* processing it, it is still in progress, and the lock timeout has elapsed
\* since it was locked.
Abandoned(j) ==
    /\ j \in JobIds(jobs)
    /\ jobs[j].status = "SUMMARIZING"
    /\ jobs[j].locked_at # None
    /\ now - jobs[j].locked_at > LockTimeout
    /\ \E w \in Workers : wpc[w] = "ended" /\ wjob[w] = j /\ wclaimed[w] = j
    /\ \A w \in Workers : wpc[w] # "ended" => wjob[w] # j

\* C7: a job abandoned in progress by a stopped worker, its lock timeout
\* elapsed, does not stay in progress for ever while some worker runs.
C7_AbandonedJobRequeued ==
    \A j \in 1..MaxLoad :
        Abandoned(j) ~> (\/ j \in JobIds(jobs) /\ jobs[j].status # "SUMMARIZING"
                         \/ \A w \in Workers : wpc[w] = "ended")

\* No worker is inside process_next with job j.
Settled(j) == \A w \in Workers : wjob[w] # j

\* C8: a job that requeue_stale_locks has reset in the course of its
\* processing and that a worker has completed ends, the workers done with it,
\* with status SUCCESS and progress_percent 1.0.
C8_CompletedEndsSuccess ==
    \A j \in JobIds(jobs) :
        (requeues[j] > 0 /\ completed[j] /\ Settled(j))
        => /\ jobs[j].status = "SUCCESS"
           /\ jobs[j].progress_percent = 100

\* C9: no step of a worker changes the status, stage or progress_percent of
\* a job whose status is SUCCESS.
C9_SuccessIsTerminal ==
    [][WorkerStep
       => \A j \in JobIds(jobs) :
             jobs[j].status = "SUCCESS"
             => /\ jobs'[j].status = jobs[j].status
                /\ jobs'[j].stage = jobs[j].stage
                /\ jobs'[j].progress_percent = jobs[j].progress_percent]_vars

\* C10: no update of a worker processing a job lowers its progress_percent,
\* which stays within [0, 1].
C10_ProgressMonotone ==
    [][(WorkerStep /\ \A w \in Workers : ~RequeueStep(w))
       => \A j \in JobIds(jobs) :
             /\ jobs'[j].progress_percent >= jobs[j].progress_percent
             /\ jobs'[j].progress_percent \in 0..100]_vars

\* C11: the step in which a worker records the failure of the job it was
\* processing (the except clause's update) takes the worker back to the
\* top of run_loop; the worker does not end.
C11_FailureStaysInsideLoop ==
    [][\A w \in Workers :
          (/\ wpc[w] \in ArxivExceptPcs \cup LocalExceptPcs
           /\ wjob[w] # None
           /\ wjob'[w] = None)
          => wpc'[w] = "loop"]_vars

\* Job j is WAITING and its id never reached the queue: the handler that
\* created it stopped before queue.enqueue.
NeverQueued(j) ==
    /\ j \in JobIds(jobs)
    /\ jobs[j].status = "WAITING"
    /\ hpc[j] = "stopped"

Terminal(j) == jobs[j].status \in {"SUCCESS", "ERROR_DOCUMENT_LOAD"}

\* Job j is claimed in stage CLAIMED with a lock that goes stale only after
\* the last instant of the model's clock.
RequeueBeyondClock(j) ==
    /\ jobs[j].stage = "CLAIMED"
    /\ jobs[j].locked_at # None
    /\ jobs[j].locked_at + LockTimeout >= MaxTime

\* C12: a WAITING job whose id never reached the queue is eventually
\* processed to a terminal status, as long as every worker started keeps
\* running.
C12_NeverQueuedJobProcessed ==
    \A j \in 1..MaxLoad :
        NeverQueued(j) ~> (/\ j \in JobIds(jobs)
                           /\ \/ Terminal(j)
                              \/ RequeueBeyondClock(j)
                              \/ \E w \in Workers :
                                    w <= nworkers /\ wpc[w] = "ended")

\* C13: the job the dedupe branch of request_local_pdf_import has created
\* is not claimed, taken up by a worker or enqueued before the handler's
\* update, and that update leaves it SUCCESS / DEDUPED / 1.0.
C13_DedupedJobUntouched ==
    [][\A j \in JobIds(jobs) :
          hpc[j] = "dedupe_update"
          => /\ \A w \in Workers : ~ClaimReturns(w, j) /\ wjob'[w] # j
             /\ \A n \in 1..Len(queue') : queue'[n] # j
             /\ hpc'[j] = "done"
                => /\ jobs'[j].status = "SUCCESS"
                   /\ jobs'[j].stage = "DEDUPED"
                   /\ jobs'[j].progress_percent = 100]_vars

\* The except clause of worker w has written the job's final status.
ExceptStep(w) ==
    /\ wpc[w] \in ArxivExceptPcs \cup LocalExceptPcs
    /\ wjob[w] # None
    /\ wjob'[w] = None

\* C14: a job whose processing failed with the model's quota exceeded ends
\* in a quota-exceeded status, one that failed with an invalid or empty
\* response in an invalid-response status; the two differ from each other
\* and from ERROR_DOCUMENT_LOAD.
C14_LlmFailuresHaveOwnStatus ==
    [][\A w \in Workers :
          ExceptStep(w)
          => LET st == jobs'[wjob[w]].status
             IN  /\ wpc[w] \in {"arxiv_except_quota", "local_except_quota"}
                    => st = "ERROR_DOCUMENT_LOAD_QUOTA_EXCEEDED"
                 /\ wpc[w] \in {"arxiv_except_invalid", "local_except_invalid"}
                    => st = "ERROR_DOCUMENT_LOAD_INVALID_RESPONSE"]_vars

\* C15: when an upload to storage failed after the document was built, the
\* state the job is left in once the exception has been re-raised has an
\* error status and the stage UPLOAD_ERROR, and is not SUCCESS.
C15_UploadFailureKeepsStage ==
    [][\A w \in Workers :
          (ExceptStep(w) /\ wpc[w] = "arxiv_except_upload")
          => /\ jobs'[wjob[w]].status = "ERROR_DOCUMENT_LOAD"
             /\ jobs'[wjob[w]].stage = "UPLOAD_ERROR"
             /\ wpc'[w] = "ended"]_vars

\* C16: once the document's status is TIMEOUT, no write of a handler still
\* at work and no new request changes it, and a new request is answered
\* with DEADLINE_EXCEEDED.
C16_TimeoutIsTerminal ==
    [][fdoc = "TIMEOUT"
       => /\ fdoc' = "TIMEOUT"
          /\ freply' # freply => freply' = "DEADLINE_EXCEEDED"]_vars

\* The step in which worker w writes SUCCESS at the end of an import that
\* ran the pipeline.
SuccessStep(w) ==
    /\ wpc[w] \in {"arxiv_upload", "local_upload"}
    /\ jobs'[wjob[w]].status = "SUCCESS"

\* C17: when a worker's import outside the stub mode ends in SUCCESS, the
\* document is saved in the job store and storage holds, under the paper's
\* version directory, lumi_doc.json, summaries.json, the index document and
\* the per-section files.
C17_SuccessMeansFullLayout ==
    [][\A w \in Workers :
          SuccessStep(w)
          => /\ jobs[wjob[w]].arxiv_id \in docs
             /\ \A f \in {"lumi_doc.json", "summaries.json", "lumi_doc_index.json",
                          "sections/{section_id}.json"} :
                    <<jobs[wjob[w]].arxiv_id, f>> \in storage']_vars

C19_TimeoutContinuesWithoutLatex ==
    [][/\ (ipc = "result" /\ ~future.done /\ ipc' # ipc)
          => latex_string' = <<>> /\ ipc' = "format"
       /\ (future.cancel_called /\ ipc = "format")
          => /\ ipc' # "ValueError"
             /\ ipc' # ipc => formatted' = <<<<>>>>]_vars

\* The formatter has been called after a timeout, while the call of
\* inline_tex_files is still running.
C19_Witness ==
    /\ future.cancel_called
    /\ ~future.done
    /\ calls # <<>>
    /\ ipc = "convert"
    /\ formatted = <<<<>>>>

\* C21: check_target_in_path(p, t), separators normalised, holds exactly
\* when p is t or ends with /t, or, for a target whose basename has no dot,
\* when p is t.<ext> or ends with /t.<ext>, <ext> being one or more
\* characters other than the dot and the separator.
C21_TargetAtEndOfPath ==
    LET p == replace(full_path)
        t == replace(target)
        no_extension ==
            \A i \in 1..Len(t) : t[i] = "." => \E k \in (i + 1)..Len(t) : t[k] = "/"
        \* p is u, or ends with /u
        At(u) ==
            /\ Len(u) <= Len(p)
            /\ SubSeq(p, Len(p) - Len(u) + 1, Len(p)) = u
            /\ Len(u) = Len(p) \/ p[Len(p) - Len(u)] = "/"
        \* the last n characters of p as an extension
        Ext(n) ==
            /\ n >= 1
            /\ \A i \in (Len(p) - n + 1)..Len(p) : p[i] \notin {".", "/"}
    IN  in_path # ""
        => (in_path = "True"
            <=> \/ At(t)
                \/ /\ no_extension
                   /\ \E n \in 1..(Len(p) - 1) :
                          /\ Ext(n)
                          /\ At(t \o <<".">> \o SubSeq(p, Len(p) - n + 1, Len(p))))

\* C22: at each image of extract_images_from_latex_source, with exactly one
\* file matching its path no error is raised; with two or more a ValueError
\* naming all of them is raised; with none a warning is made, the image keeps
\* width and height 0 and the loop goes on to the next image.
C22_MatchCountDecides ==
    [][(extract_pc = "loop" /\ image_index <= Len(image_contents)
        /\ <<extract_pc, image_index>>' # <<extract_pc, image_index>>)
       => LET matching == {f \in source_dir : check_target_in_path(f, Current.latex_path)}
          IN  /\ Cardinality(matching) = 1
                 => extract_pc' = "loop" /\ image_index' = image_index + 1
              /\ Cardinality(matching) > 1
                 => extract_pc' = "ValueError" /\ named_paths' = matching
              /\ Cardinality(matching) = 0
                 => /\ extract_pc' = "loop" /\ image_index' = image_index + 1
                    /\ Len(warned') = Len(warned) + 1
                    /\ image_contents'[image_index].width = 0
                    /\ image_contents'[image_index].height = 0]_vars

\* The first image matched no file, the second one three files.
C22_Witness ==
    /\ extract_pc = "ValueError"
    /\ warned = <<"not found">>
    /\ Cardinality(named_paths) = 3

\* C23: when extract_images_from_latex_source has returned, every image is
\* either resolved (width and height not 0, its storage_path a stored
\* object and in the returned metadata) or as it was before the call.
C23_ResolvedOrUntouched ==
    extract_pc = "returned"
    => \A i \in 1..Len(image_contents) :
          LET image == image_contents[i]
          IN  \/ /\ image.width # 0 /\ image.height # 0
                 /\ image.storage_path \in uploads
                 /\ \E k \in 1..Len(processed_image_metadata) :
                        processed_image_metadata[k].storage_path = image.storage_path
              \/ image = ImageContent(image.latex_path)

\* C24: a failed upload does not end the resolution: the loop goes on to the
\* next image, the image keeps width and height 0 and gets no metadata; and
\* when the function returns every image has been attempted.
C24_UploadFailureSkipsImage ==
    /\ [][warned' = Append(warned, "upload")
           => /\ extract_pc' = "loop"
              /\ image_index' = image_index + 1
              /\ image_contents'[image_index].width = 0
              /\ image_contents'[image_index].height = 0
              /\ processed_image_metadata' = processed_image_metadata]_vars
    /\ [](extract_pc = "returned"
           => Len(warned) + Len(processed_image_metadata) = Len(image_contents))

\* The upload of the first image failed and the second image was resolved.
C24_Witness ==
    /\ extract_pc = "returned"
    /\ warned = <<"upload">>
    /\ Len(processed_image_metadata) = 1
    /\ image_contents[2].width # 0

\* C25: the image path import_arxiv_latex_and_pdf returns is the storage
\* path of the first image, in document order, among the images resolved
\* from the LaTeX source or by the PDF fallback, and is empty only when no
\* image was resolved.
C25_FirstResolvedImage ==
    extract_pc = "imported"
    => LET resolved == {i \in 1..Len(image_contents) :
                           image_contents[i].width # 0 /\ image_contents[i].height # 0}
       IN  IF resolved = {}
           THEN image_path = <<>>
           ELSE image_path = image_contents[Min(resolved)].storage_path

\* C26: when the conversion yields no content block the result holds exactly
\* one fallback text block whose text is the original raw text, and no
\* conversion that succeeds returns a result with no content at all.
C26_FallbackIsRawText ==
    convert_pc = "done"
    => /\ response_content # <<>>
       /\ converted = <<>>
          => response_content = <<LumiContent("text", raw_markdown_string, 0)>>

\* C27: no placeholder token is in the visible text of a span of the final
\* output, the fallback text block included, and every token generated is a
\* key of the placeholder map the tree builder was given.
C27_NoPlaceholderLeaks ==
    convert_pc = "done"
    => /\ \A i \in 1..Len(response_content) :
              \A k \in 1..Len(response_content[i].text) :
                  response_content[i].text[k].t \notin {"PLACEHOLDER", "#PLACEHOLDER"}
       /\ \A uid \in 1..unique_ids : _get_placeholder_id(uid) \in DOMAIN placeholder_map

\* C28: preprocess_and_replace_figures replaces the multi-image figure blocks
\* first, then the raw-HTML figure blocks, then the bare image-and-caption
\* blocks; an image tag inside a figure block is one of the images of that
\* figure's placeholder and has no placeholder of its own; every replaced
\* block gives one token, unlike any other, and one entry of the map.
C28_FiguresBeforeImages ==
    LET raw == raw_markdown_string
        InFigure(i) ==
            /\ \E b \in (i + 1)..Len(raw) : raw[b].t = "fig]"
            /\ \E a \in 1..(i - 1) :
                   /\ raw[a].t = "[fig"
                   /\ \A c \in a..i : raw[c].t # "fig]"
        Opens == {a \in 1..Len(raw) : raw[a].t = "[fig" /\ ~InFigure(a)
                                      /\ \E b \in (a + 1)..Len(raw) : raw[b].t = "fig]"}
        Tags(tag, inside) == {i \in 1..Len(raw) : raw[i].t = tag /\ InFigure(i) = inside}
        Left(tag) == {i \in 1..Len(processed_html) : processed_html[i].t = tag}
        Keys(kind) == {p \in DOMAIN placeholder_map : placeholder_map[p].kind = kind}
        OfFigure(a) ==
            _get_placeholder_id(Cardinality({x \in Opens : x <= a}))
        At(token) == {i \in 1..Len(processed_html) : processed_html[i] = token}
    IN  /\ convert_pc \in {"figures", "html_figures", "images"}
           => /\ Cardinality(Keys("figure")) = Cardinality(Opens)
              /\ \A a \in Opens :
                     /\ OfFigure(a) \in Keys("figure")
                     /\ placeholder_map[OfFigure(a)].images =
                            Cardinality({i \in Tags("img", TRUE) :
                                            /\ a < i
                                            /\ \A c \in a..i : raw[c].t # "fig]"})
              /\ DOMAIN placeholder_map = {_get_placeholder_id(uid) : uid \in 1..unique_ids}
              /\ \A token \in DOMAIN placeholder_map : Cardinality(At(token)) = 1
        /\ convert_pc = "figures"
           => /\ DOMAIN placeholder_map = Keys("figure")
              /\ Cardinality(Left("html")) = Cardinality(Tags("html", FALSE))
              /\ Cardinality(Left("img")) = Cardinality(Tags("img", FALSE))
        /\ convert_pc = "html_figures"
           => /\ Cardinality(Keys("html_figure")) = Cardinality(Tags("html", FALSE))
              /\ Left("html") = {}
              /\ Keys("image") = {}
              /\ Cardinality(Left("img")) = Cardinality(Tags("img", FALSE))
        /\ convert_pc = "images"
           => /\ Cardinality(Keys("html_figure")) = Cardinality(Tags("html", FALSE))
              /\ Cardinality(Keys("image")) = Cardinality(Tags("img", FALSE))
              /\ Left("img") = {}

\* A figure block with an image inside and an image after it have been
\* replaced: two placeholders, the figure's and the later image's.
C28_Witness ==
    /\ convert_pc = "images"
    /\ Len(raw_markdown_string) = 4
    /\ raw_markdown_string[1].t = "[fig" /\ raw_markdown_string[2].t = "img"
    /\ raw_markdown_string[3].t = "fig]" /\ raw_markdown_string[4].t = "img"
    /\ processed_html = <<_get_placeholder_id(1), _get_placeholder_id(2)>>
    /\ placeholder_map[_get_placeholder_id(1)] = LumiContent("figure", <<>>, 1)
    /\ placeholder_map[_get_placeholder_id(2)] = LumiContent("image", <<>>, 0)

\* C29: a Firebase import request runs its steps in the order argument
\* validation, license check, metadata fetch, throttle check, document
\* write; when the arxiv_id is missing or too long, or the license check
\* fails, the throttle check and the document write never happen, and when
\* the throttle check rejects the request no document is written.
C29_RequestStepOrder ==
    LET order == <<"request_arxiv_doc_import", "check_arxiv_license", "fetch_arxiv_metadata",
                   "check_throttle", "_try_doc_write">>
        ran(fn) == \E i \in 1..Len(request_calls) : request_calls[i].fn = fn
        failed(fn) == \E i \in 1..Len(request_calls) :
                          request_calls[i].fn = fn /\ request_calls[i].outcome # "ok"
    IN  request_pc # "idle"
        => /\ Len(request_calls) <= Len(order)
           /\ \A i \in 1..Len(request_calls) : request_calls[i].fn = order[i]
           /\ fwrites > 0 => ran("_try_doc_write")
           /\ /\ request_arxiv_id = <<>> \/ Len(request_arxiv_id) > ARXIV_ID_MAX_LENGTH
              /\ request_calls # <<>>
              => failed("request_arxiv_doc_import")
           /\ failed("request_arxiv_doc_import") \/ failed("check_arxiv_license")
              => ~ran("check_throttle") /\ ~ran("_try_doc_write") /\ fwrites = 0
           /\ failed("check_throttle") => ~ran("_try_doc_write") /\ fwrites = 0

\* The request passed the license check and the metadata fetch and was
\* rejected by the throttle check: it has ended with nothing written.
C29_Witness ==
    /\ request_pc = "raised"
    /\ Len(request_calls) = 4
    /\ request_calls[2] = [fn |-> "check_arxiv_license", outcome |-> "ok"]
    /\ request_calls[4] = [fn |-> "check_throttle", outcome |-> "RESOURCE_EXHAUSTED"]
    /\ fdoc = "ABSENT"
    /\ fwrites = 0

\* C30: update_job_progress is idempotent and independent: the same update
\* applied twice leaves status, stage, progress_percent and locked_at as
\* applying it once does, a field that is not supplied keeps its value, an
\* unknown job_id changes nothing, and no other job's record is modified.
C30_UpdateIdempotent ==
    \A k \in 2..Len(job_tables) :
        LET before == job_tables[k - 1]
            after == job_tables[k]
            id == update.job_id
        IN  /\ Len(after) = Len(before)
            /\ \A j \in JobIds(before) : j # id => after[j] = before[j]
            /\ id \notin JobIds(before) => after = before
            /\ id \in JobIds(before)
               => /\ update.status = "" => after[id].status = before[id].status
                  /\ update.status # "" => after[id].status = update.status
                  /\ update.stage = "" => after[id].stage = before[id].stage
                  /\ update.stage # "" => after[id].stage = update.stage
                  /\ update.progress_percent = NoProgress
                     => after[id].progress_percent = before[id].progress_percent
                  /\ update.progress_percent # NoProgress
                     => after[id].progress_percent = update.progress_percent
                  /\ after[id].locked_at = before[id].locked_at
                  /\ after[id].arxiv_id = before[id].arxiv_id
            /\ k > 2 => after = before

\* The stage alone of the first of two claimed jobs was updated, twice.
C30_Witness ==
    /\ Len(job_tables) = 3
    /\ update = [job_id |-> 1, status |-> "", stage |-> "DONE",
                 progress_percent |-> NoProgress]
    /\ Len(job_tables[1]) = 2
    /\ job_tables[1][1].stage = "CLAIMED"
    /\ job_tables[1][2].stage = "CLAIMED"
    /\ job_tables[3][1].stage = "DONE"
    /\ job_tables[3][1].status = "SUMMARIZING"

\* C31: with several workers running process_next against one queue and one
\* job store, no two workers are inside process_job for the same job at the
\* same time, and process_job is started at most once for a job that was not
\* requeued in between (a job process_job has been started for has left the
\* stages WAITING and CLAIMED or has a final status, until a requeue resets
\* it), also when a worker claimed the job by polling while its id was still
\* to come out of the queue.
C31_ProcessJobOncePerClaim ==
    /\ [](LET InProcessJob(w) ==
                  wpc[w] \notin {"loop", "dequeue", "get", "claim", "poll", "start", "ended"}
          IN  \A w1, w2 \in Workers :
                  w1 # w2 /\ InProcessJob(w1) /\ InProcessJob(w2) => wjob[w1] # wjob[w2])
    /\ [][LET Starts(w) == wpc[w] = "start" /\ wpc'[w] \notin {"start", "ended"}
              Unstarted(r) == /\ r.stage \in {"WAITING", "CLAIMED"}
                              /\ r.status \notin {"SUCCESS", "ERROR_DOCUMENT_LOAD"}
          IN  \A w \in Workers :
                  Starts(w)
                  => /\ Unstarted(jobs[wjob[w]])
                     /\ \A w2 \in Workers :
                            w2 # w /\ wpc[w2] = "start" => wjob[w2] # wjob[w]]_vars

\* C32: every job a call of process_next claims through
\* claim_next_waiting_job is the job that call passes to process_job: the
\* call never leaves a job it claimed (in progress, locked_at set) without
\* processing it, in particular when the claimed job is not the dequeued one.
C32_ClaimedJobIsProcessed ==
    [][\A w \in Workers :
          (/\ wpc[w] \in {"claim", "poll"}
           /\ wpc'[w] = "start"
           /\ wclaimed'[w] \in JobIds(jobs))
          => wjob'[w] = wclaimed'[w]]_vars

\* C33: a job requeue_stale_locks has returned to WAITING can be claimed
\* again: a later claim_next_waiting_job returns it when it is the earliest
\* WAITING job; in the in-memory store no earlier claim keeps it out through
\* the locked set.
C33_RequeuedJobClaimable ==
    [][\A j \in JobIds(jobs) :
          (/\ jobs[j].status = "WAITING"
           /\ requeues[j] > 0
           /\ \A i \in JobIds(jobs) : jobs[i].status = "WAITING" => j <= i
           /\ \E i \in JobIds(jobs) : claims'[i] = claims[i] + 1)
          => /\ claims'[j] = claims[j] + 1
             /\ jobs'[j].status = "SUMMARIZING"
             /\ jobs'[j].locked_at = now]_vars

\* C34: a local-upload job is never processed by a worker before the upload
\* request has saved its storage_pdf_path metadata: for an upload whose PDF
\* was stored and whose handler ran to its end, the job does not end in
\* ERROR_DOCUMENT_LOAD with stage LOCAL_UPLOAD_MISSING_PDF.
C34_UploadSavedBeforeProcessing ==
    \A j \in JobIds(jobs) :
        (/\ _is_local_id(jobs[j].arxiv_id)
         /\ <<jobs[j].arxiv_id, "source.pdf">> \in storage
         /\ hpc[j] = "done")
        => ~(/\ jobs[j].status = "ERROR_DOCUMENT_LOAD"
             /\ jobs[j].stage = "LOCAL_UPLOAD_MISSING_PDF")

\* C35: the document a job persists is saved under the job's own arxiv_id and
\* version: when process_job ends a job of (paper_id, version) in SUCCESS,
\* get_lumi_doc(paper_id, version) returns a document and the storage path
\* papers/{paper_id}/v{version}/ has been written.
C35_SuccessDocUnderJobVersion ==
    process_pc = "done" /\ pjob.status = "SUCCESS"
        => /\ get_lumi_doc(pjob.arxiv_id, pjob.version)
           /\ <<pjob.arxiv_id, pjob.version>> \in doc_paths

\* C36: a local upload that is not deduplicated is given a paper id that no
\* earlier local upload was given: the id request_local_pdf_import creates
\* its job with is the id of no job that exists, and of no paper with saved
\* metadata, whether the earlier upload's handler has returned or is still
\* running.
C36_LocalIdsDistinct ==
    [][(Len(jobs') = Len(jobs) + 1 /\ hpc'[Len(jobs')] = "local_save_metadata")
          => /\ \A j \in JobIds(jobs) : jobs[j].arxiv_id # jobs'[Len(jobs')].arxiv_id
             /\ metadata[jobs'[Len(jobs')].arxiv_id] = "none"]_vars

\* C37: InMemoryJobQueue is FIFO and delivers at most once, also when several
\* workers dequeue concurrently: no dequeue call raises, the ids the calls
\* have returned are, in the order of the returns, the first ids enqueued
\* (so none is returned twice), and a call returns None only for an empty
\* queue, that is, when every id enqueued has been returned.
C37_QueueFifoAtMostOnce ==
    LET returns == SelectSeq(dequeue_calls, LAMBDA c : c.ret # None)
    IN  /\ \A k \in 1..Len(dequeue_calls) : ~dequeue_calls[k].raised
        /\ Len(returns) <= Len(enqueued)
        /\ \A k \in 1..Len(returns) : returns[k].ret = enqueued[k]

FnLifecycle(deadline) ==
    /\ (fdoc = "WAITING" /\ fdoc' # fdoc)
          => fdoc' \in {"SUMMARIZING", "ERROR_DOCUMENT_LOAD",
                        "ERROR_DOCUMENT_LOAD_QUOTA_EXCEEDED",
                        "ERROR_DOCUMENT_LOAD_INVALID_RESPONSE"} \cup deadline
    /\ (fdoc = "SUMMARIZING" /\ fdoc' # fdoc)
          => fdoc' \in {"SUCCESS", "ERROR_SUMMARIZING", "ERROR_SUMMARIZING_QUOTA_EXCEEDED",
                        "ERROR_SUMMARIZING_INVALID_RESPONSE"} \cup deadline
    /\ Len(finv') = Len(finv) + 1
          => LET started == finv'[Len(finv')]
             IN  /\ started.pc = "import" => fdoc = "WAITING"
                 /\ started.pc = "summarize" => fdoc = "SUMMARIZING"
                 /\ fdoc \notin {"WAITING", "SUMMARIZING"}
                       => started.pc = "done" /\ started.timer = "unset"
    /\ \A i \in 1..Len(finv) :
          (finv[i].pc # "done" /\ finv'[i].pc = "done") => finv'[i].timer # "armed"

RECURSIVE FirstComment(_, _, _)
FirstComment(s, i, e) ==
    IF i > e THEN 0
    ELSE IF UnescapedPercent(s, i) THEN i
    ELSE FirstComment(s, i + 1, e)

\* What is kept of the content from the line that starts at i on: a line of
\* optional spaces and an unescaped % comment is dropped with its newline, any
\* other line keeps its text before its first unescaped % and its newline,
\* a line without an unescaped % is kept as it is.
RECURSIVE KeptLines(_, _)
KeptLines(s, i) ==
    IF i > Len(s) THEN <<>>
    ELSE LET newline == FirstNewline(s, i)
             e == IF newline = 0 THEN Len(s) ELSE newline
             comment == FirstComment(s, i, e)
             kept == IF comment = 0 THEN SubSeq(s, i, e)
                     ELSE IF \A k \in i..(comment - 1) : s[k] = " " THEN <<>>
                     ELSE SubSeq(s, i, comment - 1)
                          \o (IF newline = 0 THEN <<>> ELSE <<"\n">>)
         IN  kept \o KeptLines(s, e + 1)

\* C40: with remove_comments set, every line that is only optional
\* whitespace and an unescaped % comment is removed with its newline, every
\* other line keeps its text up to its first unescaped % and its newline, a
\* % after a backslash starts no comment, and the lines without an unescaped
\* % (blank lines too) are unchanged.
C40_CommentsRemovedLineByLine ==
    comments_pc = "done" => final_content = KeptLines(inlined_content, 1)

====
